---------------------------- MODULE Spec2Model ----------------------------
(***************************************************************************)
(* A model of the larnt line-art renderer: the path operations of          *)
(* src/src/path.rs, the triangle mesh of src/src/mesh.rs with its lazily   *)
(* built BVH, and the path generators and containment predicates of the    *)
(* cube, cylinder, sphere and triangle primitives.                         *)
(*                                                                         *)
(* Coordinates are integers (exactly representable f64 values); a ray      *)
(* parameter is an exact fraction [n, d] with d > 0.  Each group of        *)
(* variables belongs to one specification (SpecPath, SpecMesh, SpecShape,  *)
(* SpecCompile); the other groups stay at their initial value there.       *)
(***************************************************************************)
EXTENDS Integers, Sequences, FiniteSets, TLC

VARIABLES
    \* ---- path.rs: a Paths value, a Filter and the result of an operation
    paths,          \* Paths.paths: the polylines of the Paths being operated on
    filt,           \* the Filter: vertex -> accepted output vertex, or None
    result,         \* the Paths returned by the last operation
    op,             \* the last operation on the Paths
    \* ---- the primitives: one shape and the last call made on it
    shape,          \* the shape under test, as its constructor left it
    ret,            \* the last call on the shape, with its arguments and result
    \* ---- mesh.rs: one Mesh and the last call made on it
    mesh,           \* the Mesh: bx, vertices, index_triangles, tree
    mret,           \* the last call on the mesh, with its arguments and result
    \* ---- mesh.rs: one Mesh shared by callers of compile and intersect
    cmesh,          \* the shared Mesh
    holder,         \* the caller holding the exclusive borrow, or Nobody
    readers,        \* the callers holding a shared borrow
    cs,             \* per caller: position, local tree, what its calls saw
    builds,         \* how many times Tree::new has run
    returned,       \* whether a compile has returned
    \* ---- function.rs: one Function and the last call made on it
    fn,             \* the Function: func, bx, direction, texture, step
    fret,           \* the last call on the Function, with its arguments and result
    \* ---- sphere.rs: one Sphere with a seeded texture and calls of paths on it
    sph,            \* the Sphere: center, radius, texture
    sret,           \* the last call on the sphere, with its arguments and result
    skept,          \* the call before some call, as its caller kept it
    \* ---- examples/larnt_typst: one call of the plugin's render
    request,        \* the arguments of the call in progress, or None
    response,       \* what the call returned, or None
    \* ---- mesh.rs: one VertexMerger and the last call made on it
    merger,         \* the VertexMerger: vertices, grid, epsilon
    got,            \* the last call of get_or_insert: its point and its index
    \* ---- path.rs: a Paths value chopped or simplified
    lines,          \* Paths.paths: the polylines of the Paths operated on
    lret,           \* the last call on the Paths, with its arguments and result
    \* ---- sphere.rs: one run of paths_random_circles, draw by draw
    cpc,            \* where the run is: "spot", "rings" or "done"
    cleft,          \* the circles still to draw
    cseen,          \* seen: the centres accepted
    cradii,         \* radii: their angular radii
    clast,          \* the last candidate drawn, and whether it was accepted
    cpaths          \* how many polylines have been pushed

pathVars == <<paths, filt, result, op>>
shapeVars == <<shape, ret>>
meshVars == <<mesh, mret>>
compileVars == <<cmesh, holder, readers, cs, builds, returned>>
fnVars == <<fn, fret>>
sphereVars == <<sph, sret, skept>>
pluginVars == <<request, response>>
mergerVars == <<merger, got>>
lineVars == <<lines, lret>>
circleVars == <<cpc, cleft, cseen, cradii, clast, cpaths>>

\* What the actions of one group leave alone: the other groups.
notPathVars == <<shapeVars, meshVars, compileVars, fnVars, sphereVars, pluginVars,
    mergerVars, lineVars, circleVars>>
notShapeVars == <<pathVars, meshVars, compileVars, fnVars, sphereVars, pluginVars,
    mergerVars, lineVars, circleVars>>
notMeshVars == <<pathVars, shapeVars, compileVars, fnVars, sphereVars, pluginVars,
    mergerVars, lineVars, circleVars>>
notCompileVars == <<pathVars, shapeVars, meshVars, fnVars, sphereVars, pluginVars,
    mergerVars, lineVars, circleVars>>
notFnVars == <<pathVars, shapeVars, meshVars, compileVars, sphereVars, pluginVars,
    mergerVars, lineVars, circleVars>>
notSphereVars == <<pathVars, shapeVars, meshVars, compileVars, fnVars, pluginVars,
    mergerVars, lineVars, circleVars>>
notPluginVars == <<pathVars, shapeVars, meshVars, compileVars, fnVars, sphereVars,
    mergerVars, lineVars, circleVars>>
notMergerVars == <<pathVars, shapeVars, meshVars, compileVars, fnVars, sphereVars,
    pluginVars, lineVars, circleVars>>
notLineVars == <<pathVars, shapeVars, meshVars, compileVars, fnVars, sphereVars,
    pluginVars, mergerVars, circleVars>>
notCircleVars == <<pathVars, shapeVars, meshVars, compileVars, fnVars, sphereVars,
    pluginVars, mergerVars, lineVars>>

vars == <<paths, filt, result, op, shape, ret, mesh, mret,
          cmesh, holder, readers, cs, builds, returned, fn, fret,
          sph, sret, skept, request, response, merger, got, lines, lret,
          cpc, cleft, cseen, cradii, clast, cpaths>>

(***************************************************************************)
(* Vectors                                                                 *)
(***************************************************************************)
Vec(x, y, z) == [x |-> x, y |-> y, z |-> z]

sub(a, b) == Vec(a.x - b.x, a.y - b.y, a.z - b.z)
dot(a, b) == a.x * b.x + a.y * b.y + a.z * b.z
length_squared(a) == dot(a, a)
distance_squared(a, b) == length_squared(sub(a, b))
cross(a, b) ==
    Vec(a.y * b.z - a.z * b.y, a.z * b.x - a.x * b.z, a.x * b.y - a.y * b.x)
mul_scalar(a, k) == Vec(a.x * k, a.y * k, a.z * k)
Min(a, b) == IF a < b THEN a ELSE b
Max(a, b) == IF a > b THEN a ELSE b
vmin(a, b) == Vec(Min(a.x, b.x), Min(a.y, b.y), Min(a.z, b.z))
vmax(a, b) == Vec(Max(a.x, b.x), Max(a.y, b.y), Max(a.z, b.z))

\* sqrt(sq) < x and sqrt(sq) > x for an exact square sq >= 0: how a length
\* compares with a bound.
SqrtLt(sq, x) == x > 0 /\ sq < x * x
SqrtGt(sq, x) == x < 0 \/ sq > x * x

(***************************************************************************)
(* Exact fractions [n, d], reduced, d > 0; [0, 0] is the NaN of 0.0 / 0.0. *)
(***************************************************************************)
Abs(k) == IF k < 0 THEN -k ELSE k

RECURSIVE GCD(_, _)
GCD(a, b) == IF b = 0 THEN a ELSE GCD(b, a % b)

\* Vector::normalize of a vector that is not zero: the unit vector of its
\* direction, kept as the shortest integer vector of that direction (two unit
\* vectors are equal exactly when these are).
normalize(a) ==
    LET g == GCD(GCD(Abs(a.x), Abs(a.y)), Abs(a.z))
    IN Vec(a.x \div g, a.y \div g, a.z \div g)

NaN == [n |-> 0, d |-> 0]
Frac(n, d) ==
    IF d = 0 THEN NaN
    ELSE LET g == GCD(Abs(n), Abs(d))
             sgn == IF d < 0 THEN -1 ELSE 1
         IN [n |-> sgn * (n \div g), d |-> sgn * (d \div g)]
FInt(k) == [n |-> k, d |-> 1]
\* +infinity, which compares above every fraction.
Inf == [n |-> 1, d |-> 0]
FLt(a, b) == a.n * b.d < b.n * a.d
FLe(a, b) == a.n * b.d <= b.n * a.d
FMin(a, b) == IF FLt(b, a) THEN b ELSE a
FMax(a, b) == IF FLt(a, b) THEN b ELSE a
IsNaN(a) == a.d = 0
FAdd(a, b) == IF IsNaN(a) \/ IsNaN(b) THEN NaN ELSE Frac(a.n * b.d + b.n * a.d, a.d * b.d)
FSub(a, b) == IF IsNaN(a) \/ IsNaN(b) THEN NaN ELSE Frac(a.n * b.d - b.n * a.d, a.d * b.d)
FMul(a, b) == IF IsNaN(a) \/ IsNaN(b) THEN NaN ELSE Frac(a.n * b.n, a.d * b.d)

\* Option<T>: None, or Some(v).
None == <<>>
Some(v) == <<v>>

(***************************************************************************)
(* path.rs                                                                 *)
(***************************************************************************)
\* Longest polyline pushed into a Paths, and most polylines of a Paths.
MaxLen == 3
MaxPaths == 2

\* The vertices polylines are drawn from.
PathVertices == {Vec(0, 0, 0), Vec(1, 2, 0)}

\* What an accepting filter makes of a vertex (a projection to the screen:
\* never the vertex itself).
Projected(v) == Vec(10 * v.x + 5, 10 * v.y + 5, 0)

\* The filters: every way of rejecting some of the vertices.
Filters == {[v \in PathVertices |-> IF v \in acc THEN Some(Projected(v)) ELSE None] :
               acc \in SUBSET PathVertices}

RECURSIVE SeqsUpTo(_, _)
SeqsUpTo(S, n) ==
    IF n = 0 THEN {<<>>}
    ELSE LET shorter == SeqsUpTo(S, n - 1)
         IN shorter \cup {Append(s, v) : s \in {t \in shorter : Len(t) = n - 1}, v \in S}

\* The loop of path_filter from vertex i on, with the polylines finished so
\* far and the polyline being collected.
RECURSIVE path_filter_loop(_, _, _, _, _)
path_filter_loop(path, f, i, res, current_path) ==
    IF i > Len(path)
    THEN IF Len(current_path) > 1 THEN Append(res, current_path) ELSE res
    ELSE IF f[path[i]] # None
         THEN path_filter_loop(path, f, i + 1, res, Append(current_path, f[path[i]][1]))
         ELSE path_filter_loop(path, f, i + 1,
                               IF Len(current_path) > 1 THEN Append(res, current_path) ELSE res,
                               <<>>)

\* A slip: a finished polyline of a single vertex is kept as well.
path_filter_keep1(path, f) ==
    LET RECURSIVE loop(_, _, _)
        loop(i, res, cur) ==
            IF i > Len(path)
            THEN IF Len(cur) > 0 THEN Append(res, cur) ELSE res
            ELSE IF f[path[i]] # None
                 THEN loop(i + 1, res, Append(cur, f[path[i]][1]))
                 ELSE loop(i + 1, IF Len(cur) > 0 THEN Append(res, cur) ELSE res, <<>>)
    IN loop(1, <<>>, <<>>)

path_filter(path, f) == path_filter_loop(path, f, 1, <<>>, <<>>)

\* Paths::filter: the polylines of path_filter over every path, in order.
RECURSIVE Paths_filter_from(_, _, _)
Paths_filter_from(ps, f, k) ==
    IF k > Len(ps) THEN <<>>
    ELSE path_filter(ps[k], f) \o Paths_filter_from(ps, f, k + 1)

Paths_filter(ps, f) == Paths_filter_from(ps, f, 1)

PathInit ==
    /\ paths = <<>>
    /\ filt \in Filters
    /\ result = <<>>
    /\ op = "new"

\* The Paths group at rest, in the specifications of the other groups.
PathIdle ==
    /\ paths = <<>>
    /\ filt = [v \in PathVertices |-> None]
    /\ result = <<>>
    /\ op = "new"

\* Paths::push
PathsPush(path) ==
    /\ Len(paths) < MaxPaths
    /\ paths' = Append(paths, path)
    /\ op' = "push"
    /\ UNCHANGED <<filt, result>>
    /\ UNCHANGED notPathVars

\* Paths::filter
PathsFilter ==
    /\ result' = Paths_filter(paths, filt)
    /\ op' = "filter"
    /\ UNCHANGED <<paths, filt>>
    /\ UNCHANGED notPathVars

(***************************************************************************)
(* mesh.rs: the vertex merger, the mesh and its edges                      *)
(***************************************************************************)
\* Box: (min, max)
Box(mn, mx) == [min |-> mn, max |-> mx]

\* A Triangle with its cached box, as Triangle::new builds it.
Triangle_new(v1, v2, v3) ==
    [v1 |-> v1, v2 |-> v2, v3 |-> v3,
     bx |-> Box(vmin(vmin(v1, v2), v3), vmax(vmax(v1, v2), v3))]

\* Box::for_shapes over at least one shape: the union of their boxes.
Least(S) == CHOOSE a \in S : \A b \in S : a <= b
Greatest(S) == CHOOSE a \in S : \A b \in S : b <= a
Box_for_shapes(shapes) ==
    LET K == DOMAIN shapes
    IN Box(Vec(Least({shapes[k].bx.min.x : k \in K}),
               Least({shapes[k].bx.min.y : k \in K}),
               Least({shapes[k].bx.min.z : k \in K})),
           Vec(Greatest({shapes[k].bx.max.x : k \in K}),
               Greatest({shapes[k].bx.max.y : k \in K}),
               Greatest({shapes[k].bx.max.z : k \in K})))

\* ---- VertexMerger.  epsilon is the fraction eps_n / eps_d of a unit.
VertexMerger_new(eps_n, eps_d) ==
    [vertices |-> <<>>, grid |-> <<>>, eps_n |-> eps_n, eps_d |-> eps_d]

\* (x / cell_size).floor()
Cell(x, m) == (x * m.eps_d) \div m.eps_n

\* v.distance_squared(existing_v) < epsilon_sq
WithinEpsilon(a, b, m) ==
    LET q == distance_squared(a, b) * m.eps_d
    IN q < m.eps_n * m.eps_n /\ q * m.eps_d < m.eps_n * m.eps_n

\* The 27 cells with every offset left out: the point's own cell only.
Neighbourhood_own(ix, iy, iz) == [k \in 1..27 |-> <<ix, iy, iz>>]

\* The 27 neighbouring cells in the order the loops visit them.
Neighbourhood(ix, iy, iz) ==
    [k \in 1..27 |-> <<ix + ((k - 1) \div 9) - 1,
                       iy + (((k - 1) \div 3) % 3) - 1,
                       iz + ((k - 1) % 3) - 1>>]

\* The first index of the list whose vertex is within epsilon of v; 0 if none.
RECURSIVE FirstWithin(_, _, _, _)
FirstWithin(indices, k, v, m) ==
    IF k > Len(indices) THEN 0
    ELSE IF WithinEpsilon(v, m.vertices[indices[k]], m) THEN indices[k]
    ELSE FirstWithin(indices, k + 1, v, m)

\* The match found in cell k of the neighbourhood; 0 if none.
CellMatch(cells, k, v, m) ==
    IF cells[k] \in DOMAIN m.grid THEN FirstWithin(m.grid[cells[k]], 1, v, m) ELSE 0

\* The search of get_or_insert: the match of the first cell that has one.
SearchCells(cells, v, m) ==
    LET matching == {k \in DOMAIN cells : CellMatch(cells, k, v, m) # 0}
    IN IF matching = {} THEN 0
       ELSE CellMatch(cells, CHOOSE k \in matching : \A j \in matching : k <= j, v, m)

\* get_or_insert: the merger afterwards and the index returned (indices count
\* from 1 here, from 0 in the source).
get_or_insert(m, v) ==
    LET key == <<Cell(v.x, m), Cell(v.y, m), Cell(v.z, m)>>
        found == SearchCells(Neighbourhood(key[1], key[2], key[3]), v, m)
        new_idx == Len(m.vertices) + 1
    IN IF found # 0 THEN [merger |-> m, idx |-> found]
       ELSE [merger |-> [m EXCEPT !.vertices = Append(@, v),
                                  !.grid = IF key \in DOMAIN @
                                           THEN [@ EXCEPT ![key] = Append(@, new_idx)]
                                           ELSE @ @@ (key :> <<new_idx>>)],
             idx |-> new_idx]

\* ---- Mesh
\* The loop of Mesh::new from triangle k on, with the merger and the index
\* triangles pushed so far, and the Mesh put together after it.  The three indices of a triangle are settled
\* before the next triangle is read.
RECURSIVE Mesh_new_from(_, _, _, _)
Mesh_new_from(triangles, k, m, itriangles) ==
    IF k > Len(triangles)
    THEN [bx |-> Box_for_shapes(triangles),
          index_triangles |-> itriangles,
          vertices |-> m.vertices,
          tree |-> None]
    ELSE LET r1 == get_or_insert(m, triangles[k].v1)
             r2 == get_or_insert(r1.merger, triangles[k].v2)
             r3 == get_or_insert(r2.merger, triangles[k].v3)
             it == [v1 |-> r1.idx, v2 |-> r2.idx, v3 |-> r3.idx]
             pushed == Append(itriangles, it)
         IN CASE it.v1 > 0 /\ it.v2 > 0 /\ it.v3 > 0 /\ Len(pushed) = k ->
                Mesh_new_from(triangles, k + 1, r3.merger, pushed)

\* Mesh::new, with epsilon = 1e-6
Mesh_new(triangles) == Mesh_new_from(triangles, 1, VertexMerger_new(1, 1000000), <<>>)

\* Mesh::triangles
Mesh_triangles(self) ==
    [k \in 1..Len(self.index_triangles) |->
        Triangle_new(self.vertices[self.index_triangles[k].v1],
                     self.vertices[self.index_triangles[k].v2],
                     self.vertices[self.index_triangles[k].v3])]

Mesh_contains(self, v, f) == FALSE

\* ---- IndexTriangle
\* IndexTriangle::paths: the three edges between the sorted indices.
IndexTriangle_paths(it) ==
    LET lo == Min(Min(it.v1, it.v2), it.v3)
        hi == Max(Max(it.v1, it.v2), it.v3)
        mid == it.v1 + it.v2 + it.v3 - lo - hi
    IN << <<lo, mid>>, <<mid, hi>>, <<lo, hi>> >>

\* A slip: the normal is left on whichever side the winding puts it.
normalized_normal_unflipped(it, vertices) ==
    normalize(cross(sub(vertices[it.v2], vertices[it.v1]),
                    sub(vertices[it.v3], vertices[it.v1])))

normalized_normal(it, vertices) ==
    LET v1 == vertices[it.v1]
        v2 == vertices[it.v2]
        v3 == vertices[it.v3]
        normal == normalize(cross(sub(v2, v1), sub(v3, v1)))
    IN IF \/ normal.x < 0
          \/ (normal.x = 0 /\ normal.y < 0)
          \/ (normal.x = 0 /\ normal.y = 0 /\ normal.z < 0)
       THEN mul_scalar(normal, -1)
       ELSE normal

\* The counting loop of Mesh::paths from triangle k on, with the merger of the
\* normals and the counter, a map from <<a, b, normal index>> to a count.  The
\* three counts of a triangle are settled before the next triangle is read.
RECURSIVE Mesh_paths_count(_, _, _, _)
Mesh_paths_count(self, k, normal_merger, counter) ==
    IF k > Len(self.index_triangles) THEN counter
    ELSE LET it == self.index_triangles[k]
             r == get_or_insert(normal_merger, normalized_normal(it, self.vertices))
             e == IndexTriangle_paths(it)
             key(path) == <<path[1], path[2], r.idx>>
             bump(c, path) ==
                 IF key(path) \in DOMAIN c THEN [c EXCEPT ![key(path)] = @ + 1]
                 ELSE c @@ (key(path) :> 1)
             counted == bump(bump(bump(counter, e[1]), e[2]), e[3])
         IN CASE \A j \in 1..3 : counted[key(e[j])] > 0 ->
                Mesh_paths_count(self, k + 1, r.merger, counted)

KeyLess(a, b) ==
    \/ a[1] < b[1]
    \/ a[1] = b[1] /\ a[2] < b[2]
    \/ a[1] = b[1] /\ a[2] = b[2] /\ a[3] < b[3]

\* The keys of a set in ascending order.
RECURSIVE Ascending(_)
Ascending(S) ==
    IF S = {} THEN <<>>
    ELSE LET lo == CHOOSE a \in S : \A b \in S \ {a} : KeyLess(a, b)
         IN <<lo>> \o Ascending(S \ {lo})

Reverse(q) == [k \in 1..Len(q) |-> q[Len(q) + 1 - k]]

\* The orders in which a HashMap is taken to hand out its entries: the
\* iteration order of std's HashMap is unspecified and differs from run to
\* run; two of its orders are followed.
HashOrders == {"ascending", "descending"}
IntoIter(S, order) == IF order = "ascending" THEN Ascending(S) ELSE Reverse(Ascending(S))

\* Mesh::paths
Mesh_paths_once(counter) == {key \in DOMAIN counter : counter[key] = 1}

Mesh_paths_emit(self, keys) ==
    [k \in 1..Len(keys) |-> <<self.vertices[keys[k][1]], self.vertices[keys[k][2]]>>]

Mesh_paths(self, order) ==
    Mesh_paths_emit(self,
        IntoIter(Mesh_paths_once(Mesh_paths_count(self, 1, VertexMerger_new(1, 1000000), <<>>)),
                 order))

(***************************************************************************)
(* Rays, hits, triangle.rs, and the BVH over a mesh's triangles            *)
(***************************************************************************)
Ray(origin, direction) == [origin |-> origin, direction |-> direction]

\* A Hit is its ray parameter t; no hit is t = +infinity.
Hit_new(t) == t
NoHit == Inf
Hit_min(a, b) == IF FLt(b, a) THEN b ELSE a
Hit_ok(h) == h.d # 0

\* Triangle::intersect_vertices.  With integer coordinates det is an integer,
\* so |det| < EPS is det = 0, and a parameter d = D / det below EPS = 1e-9 is
\* one that is not positive.
Triangle_intersect_vertices(v1, v2, v3, r) ==
    LET e1 == sub(v2, v1)
        e2 == sub(v3, v1)
        p == cross(r.direction, e2)
        det == dot(e1, p)
        t == sub(r.origin, v1)
        U == dot(t, p)                          \* u = U / det
        q == cross(t, e1)
        V == dot(r.direction, q)                \* v = V / det
        D == dot(e2, q)                         \* d = D / det
    IN IF det = 0 THEN NoHit
       ELSE IF U * det < 0 \/ U * det > det * det THEN NoHit
       ELSE IF V * det < 0 \/ (U + V) * det > det * det THEN NoHit
       ELSE IF D * det <= 0 THEN NoHit
       ELSE Hit_new(Frac(D, det))

Triangle_intersect(t, r) == Triangle_intersect_vertices(t.v1, t.v2, t.v3, r)

\* The closest hit among the shapes from k on.
RECURSIVE Shapes_intersect(_, _, _)
Shapes_intersect(shapes, k, r) ==
    IF k > Len(shapes) THEN NoHit
    ELSE Hit_min(Triangle_intersect(shapes[k], r), Shapes_intersect(shapes, k + 1, r))

\* Box slab test, for a ray whose direction has no zero component: the
\* parameters at which the ray enters and leaves the box.
Box_intersect(b, r) ==
    LET o == r.origin
        d == r.direction
        nx == Frac(b.min.x - o.x, d.x)  fx == Frac(b.max.x - o.x, d.x)
        ny == Frac(b.min.y - o.y, d.y)  fy == Frac(b.max.y - o.y, d.y)
        nz == Frac(b.min.z - o.z, d.z)  fz == Frac(b.max.z - o.z, d.z)
    IN [t0 |-> FMax(FMax(FMin(nx, fx), FMin(ny, fy)), FMin(nz, fz)),
        t1 |-> FMin(FMin(FMax(nx, fx), FMax(ny, fy)), FMax(nz, fz))]

\* The slab test misses the box.
Slab_miss(s) == FLt(s.t1, s.t0) \/ s.t1.n <= 0

\* Most shapes of a leaf.
LeafSize == 8

\* Ascending insertion into a sorted sequence of integers, and the sort.
RECURSIVE Insert(_, _)
Insert(q, x) ==
    IF q = <<>> THEN <<x>>
    ELSE IF x <= Head(q) THEN <<x>> \o q
    ELSE <<Head(q)>> \o Insert(Tail(q), x)
RECURSIVE Sorted(_)
Sorted(q) == IF q = <<>> THEN <<>> ELSE Insert(Sorted(Tail(q)), Head(q))

\* util::median of a sorted list (indices count from 1 here).
median(items) ==
    LET n == Len(items)
    IN IF n = 0 THEN FInt(0)
       ELSE IF n % 2 = 1 THEN FInt(items[n \div 2 + 1])
       ELSE Frac(items[n \div 2] + items[n \div 2 + 1], 2)

\* Twice the centre of a box along an axis.
Centre2(b, axis) ==
    CASE axis = "x" -> b.min.x + b.max.x
      [] axis = "y" -> b.min.y + b.max.y
      [] axis = "z" -> b.min.z + b.max.z

LongestAxis(b) ==
    LET ex == b.max.x - b.min.x
        ey == b.max.y - b.min.y
        ez == b.max.z - b.min.z
    IN IF ex >= ey /\ ex >= ez THEN "x" ELSE IF ey >= ez THEN "y" ELSE "z"

\* A BVH node over shapes: a leaf of at most LeafSize shapes, or a split at
\* the median of the box centres along the longest axis of the union box.  A
\* split that leaves one side empty makes a leaf.
RECURSIVE Node_new(_)
Node_new(shapes) ==
    LET box == Box_for_shapes(shapes)
        axis == LongestAxis(box)
        point == median(Sorted([k \in 1..Len(shapes) |-> Centre2(shapes[k].bx, axis)]))
        Below(sh) == FLt(FInt(Centre2(sh.bx, axis)), point)
        NotBelow(sh) == ~Below(sh)
        left == SelectSeq(shapes, Below)
        right == SelectSeq(shapes, NotBelow)
    IN IF Len(shapes) <= LeafSize \/ left = <<>> \/ right = <<>>
       THEN [leaf |-> TRUE, box |-> box, shapes |-> shapes]
       ELSE [leaf |-> FALSE, box |-> box, axis |-> axis, point |-> point,
             left |-> Node_new(left), right |-> Node_new(right)]

Tree_new(shapes) == Node_new(shapes)

\* The query: no hit when the slab test misses the node's box; at a leaf the
\* closest of its shapes; at an inner node the closer child first, and the
\* farther one unless it is missed or entered beyond the best hit so far.
RECURSIVE Node_intersect(_, _)
Node_intersect(node, r) ==
    IF Slab_miss(Box_intersect(node.box, r)) THEN NoHit
    ELSE IF node.leaf THEN Shapes_intersect(node.shapes, 1, r)
    ELSE LET sl == Box_intersect(node.left.box, r)
             sr == Box_intersect(node.right.box, r)
             leftFirst == Slab_miss(sr) \/ (~Slab_miss(sl) /\ FLe(sl.t0, sr.t0))
             first == IF leftFirst THEN node.left ELSE node.right
             second == IF leftFirst THEN node.right ELSE node.left
             s2 == IF leftFirst THEN sr ELSE sl
             h1 == Node_intersect(first, r)
         IN IF Slab_miss(s2) \/ FLt(h1, s2.t0) THEN h1
            ELSE Hit_min(h1, Node_intersect(second, r))

Tree_intersect(tree, r) == Node_intersect(tree, r)

\* ---- Matrix: the affine maps used, linear rows and a translation
Matrix(r1, r2, r3, t) == [r1 |-> r1, r2 |-> r2, r3 |-> r3, t |-> t]
Matrix_translate(v) == Matrix(Vec(1, 0, 0), Vec(0, 1, 0), Vec(0, 0, 1), v)
Matrix_scale(v) == Matrix(Vec(v.x, 0, 0), Vec(0, v.y, 0), Vec(0, 0, v.z), Vec(0, 0, 0))
\* rotate(z axis, 90 degrees)
Matrix_quarter_turn == Matrix(Vec(0, -1, 0), Vec(1, 0, 0), Vec(0, 0, 1), Vec(0, 0, 0))
mul_position(m, v) ==
    Vec(dot(m.r1, v) + m.t.x, dot(m.r2, v) + m.t.y, dot(m.r3, v) + m.t.z)

\* ---- Mesh: transform, compile, intersect
\* A slip: the BVH of the old vertices is kept.
Mesh_transform_keeps_tree(self, matrix) ==
    LET moved == [self EXCEPT !.vertices =
                     [k \in 1..Len(self.vertices) |-> mul_position(matrix, self.vertices[k])]]
    IN [moved EXCEPT !.bx = Box_for_shapes(Mesh_triangles(moved))]

\* A slip: the cached box of the old vertices is kept.
Mesh_transform_keeps_box(self, matrix) ==
    [self EXCEPT !.vertices =
                     [k \in 1..Len(self.vertices) |-> mul_position(matrix, self.vertices[k])],
                 !.tree = None]

Mesh_transform(self, matrix) ==
    LET moved == [self EXCEPT !.vertices =
                     [k \in 1..Len(self.vertices) |-> mul_position(matrix, self.vertices[k])]]
    IN [moved EXCEPT !.bx = Box_for_shapes(Mesh_triangles(moved)),
                     !.tree = None]

\* ---- Box and Matrix helpers of move_to and fit_inside
\* Box::size, and Box::anchor(a) = min + size * a with a in fractions.
Box_size(b) == sub(b.max, b.min)
Box_anchor(b, a) ==
    Vec(FAdd(FInt(b.min.x), FMul(FInt(Box_size(b).x), a.x)),
        FAdd(FInt(b.min.y), FMul(FInt(Box_size(b).y), a.y)),
        FAdd(FInt(b.min.z), FMul(FInt(Box_size(b).z), a.z)))

\* A vector of fractions all of whose components are whole, and the vector
\* of integers it then is.
Whole(v) == v.x.d = 1 /\ v.y.d = 1 /\ v.z.d = 1
Ints(v) == Vec(v.x.n, v.y.n, v.z.n)

\* self.translated(v) and self.scaled(v): the map followed by the
\* translation, or by the scaling.
Matrix_identity == Matrix(Vec(1, 0, 0), Vec(0, 1, 0), Vec(0, 0, 1), Vec(0, 0, 0))
Matrix_translated(m, v) ==
    [m EXCEPT !.t = Vec(m.t.x + v.x, m.t.y + v.y, m.t.z + v.z)]
Matrix_scaled(m, v) ==
    Matrix(Vec(m.r1.x * v.x, m.r1.y * v.x, m.r1.z * v.x),
           Vec(m.r2.x * v.y, m.r2.y * v.y, m.r2.z * v.y),
           Vec(m.r3.x * v.z, m.r3.y * v.z, m.r3.z * v.z),
           Vec(m.t.x * v.x, m.t.y * v.y, m.t.z * v.z))

\* Mesh::move_to: the translation that takes the anchor of the cached box to
\* position.
move_to_by(self, position, anchor) ==
    LET at == Box_anchor(self.bx, anchor)
    IN Vec(FSub(FInt(position.x), at.x), FSub(FInt(position.y), at.y),
           FSub(FInt(position.z), at.z))
Mesh_move_to(self, position, anchor) ==
    Mesh_transform(self, Matrix_translate(Ints(move_to_by(self, position, anchor))))

\* Mesh::fit_inside: bx.size().div(self.bx.size()).min_component(), a ratio
\* over a zero extent being +infinity, and the translation applied last.
fit_ratio(a, b) == IF b = 0 THEN Inf ELSE Frac(a, b)
fit_scale(self, bx) ==
    FMin(FMin(fit_ratio(Box_size(bx).x, Box_size(self.bx).x),
              fit_ratio(Box_size(bx).y, Box_size(self.bx).y)),
         fit_ratio(Box_size(bx).z, Box_size(self.bx).z))
fit_shift(self, bx, anchor) ==
    LET scale == fit_scale(self, bx)
        ex == FSub(FInt(Box_size(bx).x), FMul(FInt(Box_size(self.bx).x), scale))
        ey == FSub(FInt(Box_size(bx).y), FMul(FInt(Box_size(self.bx).y), scale))
        ez == FSub(FInt(Box_size(bx).z), FMul(FInt(Box_size(self.bx).z), scale))
    IN Vec(FAdd(FInt(bx.min.x), FMul(ex, anchor.x)),
           FAdd(FInt(bx.min.y), FMul(ey, anchor.y)),
           FAdd(FInt(bx.min.z), FMul(ez, anchor.z)))
fit_matrix(self, bx, anchor) ==
    LET scale == fit_scale(self, bx).n
        m1 == Matrix_translated(Matrix_identity,
                                Vec(-self.bx.min.x, -self.bx.min.y, -self.bx.min.z))
        m2 == Matrix_scaled(m1, Vec(scale, scale, scale))
    IN Matrix_translated(m2, Ints(fit_shift(self, bx, anchor)))
Mesh_fit_inside(self, bx, anchor) == Mesh_transform(self, fit_matrix(self, bx, anchor))

\* A slip: the BVH is built when a ray asks for it.
Mesh_intersect_on_demand(self, r) == Tree_intersect(Tree_new(Mesh_triangles(self)), r)

\* A slip: the BVH is built on every call.
Mesh_compile_always(self) ==
    [mesh |-> [self EXCEPT !.tree = Some(Tree_new(Mesh_triangles(self)))], built |-> TRUE]

\* Mesh::compile: the mesh afterwards, and whether the call ran Tree::new.
Mesh_compile(self) ==
    IF self.tree = None
    THEN [mesh |-> [self EXCEPT !.tree = Some(Tree_new(Mesh_triangles(self)))],
          built |-> TRUE]
    ELSE [mesh |-> self, built |-> FALSE]

Mesh_intersect(self, r) ==
    IF self.tree = None THEN NoHit ELSE Tree_intersect(self.tree[1], r)

\* ---- the meshes, matrices and rays tried
\* Largest coordinate a transform may reach, and most triangles of a mesh
\* put together from the pool.
MaxCoord == 4
MaxTriangles == 2

EdgeA == Vec(0, 0, 0)
EdgeB == Vec(0, 0, 1)

Tetrahedron ==
    << Triangle_new(Vec(0, 0, 0), Vec(1, 0, 0), Vec(0, 1, 0)),
       Triangle_new(Vec(0, 0, 0), Vec(0, 1, 0), Vec(0, 0, 1)),
       Triangle_new(Vec(0, 0, 0), Vec(0, 0, 1), Vec(1, 0, 0)),
       Triangle_new(Vec(1, 0, 0), Vec(0, 1, 0), Vec(0, 0, 1)) >>

\* A flat square of two triangles wound in opposite senses.
Square ==
    << Triangle_new(Vec(0, 0, 0), Vec(2, 0, 0), Vec(2, 2, 0)),
       Triangle_new(Vec(0, 0, 0), Vec(0, 2, 0), Vec(2, 2, 0)) >>

\* Two flat quads crossing along the edge EdgeA-EdgeB, each split along it.
Crossed ==
    << Triangle_new(EdgeA, EdgeB, Vec(1, 0, 0)),
       Triangle_new(EdgeA, EdgeB, Vec(-1, 0, 0)),
       Triangle_new(EdgeA, EdgeB, Vec(0, 1, 0)),
       Triangle_new(EdgeB, EdgeA, Vec(0, -1, 0)) >>

\* The two triangles of the face of the box [0, 2]^3 with corner o and sides
\* u and v.
Face(o, u, v) ==
    << Triangle_new(o, Vec(o.x + u.x, o.y + u.y, o.z + u.z),
                    Vec(o.x + u.x + v.x, o.y + u.y + v.y, o.z + u.z + v.z)),
       Triangle_new(o, Vec(o.x + u.x + v.x, o.y + u.y + v.y, o.z + u.z + v.z),
                    Vec(o.x + v.x, o.y + v.y, o.z + v.z)) >>
BoxMesh ==
    Face(Vec(0, 0, 0), Vec(0, 2, 0), Vec(0, 0, 2)) \o
    Face(Vec(2, 0, 0), Vec(0, 2, 0), Vec(0, 0, 2)) \o
    Face(Vec(0, 0, 0), Vec(2, 0, 0), Vec(0, 0, 2)) \o
    Face(Vec(0, 2, 0), Vec(2, 0, 0), Vec(0, 0, 2)) \o
    Face(Vec(0, 0, 0), Vec(2, 0, 0), Vec(0, 2, 0)) \o
    Face(Vec(0, 0, 2), Vec(2, 0, 0), Vec(0, 2, 0))

TrianglePool ==
    { Triangle_new(EdgeA, EdgeB, Vec(2, 0, 0)),
      Triangle_new(EdgeA, EdgeB, Vec(-2, 0, 0)),
      Triangle_new(EdgeA, EdgeB, Vec(0, 2, 0)),
      Triangle_new(Vec(2, 0, 0), Vec(0, 2, 0), EdgeB) }

\* The triangle lists given to Mesh::new: none is empty and no triangle is
\* degenerate.
MeshInputs ==
    {Tetrahedron, Square, Crossed, BoxMesh}
        \cup (SeqsUpTo(TrianglePool, MaxTriangles) \ {<<>>})

Matrices ==
    {Matrix_translate(Vec(0, 0, 1)), Matrix_scale(Vec(2, 2, 2)), Matrix_quarter_turn}

\* Anchors at the minimum corner, the centre and the maximum corner of a box,
\* and the positions and boxes given to move_to and fit_inside.
Anchors ==
    {Vec(FInt(0), FInt(0), FInt(0)), Vec(Frac(1, 2), Frac(1, 2), Frac(1, 2)),
     Vec(FInt(1), FInt(1), FInt(1))}
MovePositions == {Vec(0, 0, 0), Vec(1, 1, 1)}
FitBoxes == {Box(Vec(0, 0, 0), Vec(1, 1, 1)), Box(Vec(0, 0, 0), Vec(2, 2, 2)),
             Box(Vec(-1, -1, -1), Vec(3, 3, 3))}

\* The meshes and rays tried with them.
MovedInputs == {Tetrahedron, Square, BoxMesh}
MovedRays == {Ray(Vec(-1, 0, 0), Vec(2, 1, 1)), Ray(Vec(3, 3, 3), Vec(-1, -1, -1))}

Rays ==
    { Ray(Vec(-1, 0, 0), Vec(2, 1, 1)),
      Ray(Vec(3, 3, 3), Vec(-1, -1, -1)),
      Ray(Vec(1, 1, 1), Vec(1, 2, 3)),
      Ray(Vec(-1, -1, -1), Vec(1, 1, 2)),
      Ray(Vec(1, 1, 4), Vec(-1, 1, -2)),
      Ray(Vec(4, 1, 1), Vec(1, 1, 1)) }

InBounds(v) ==
    /\ Abs(v.x) <= MaxCoord
    /\ Abs(v.y) <= MaxCoord
    /\ Abs(v.z) <= MaxCoord

\* A call on the mesh, before its arguments and results are filled in.
NoMCall(name) ==
    [call |-> name, ray |-> Ray(Vec(0, 0, 0), Vec(1, 1, 1)), hit |-> NoHit,
     paths |-> <<>>, built |-> FALSE]

MeshInit ==
    /\ mesh \in {Mesh_new(triangles) : triangles \in MeshInputs}
    /\ mret = NoMCall("new")

\* A mesh of no triangles, where no mesh is in play.
NoMesh ==
    [bx |-> Box(Vec(0, 0, 0), Vec(0, 0, 0)), index_triangles |-> <<>>,
     vertices |-> <<>>, tree |-> None]

\* The mesh group at rest, in the specifications of the other groups.
MeshIdle ==
    /\ mesh = NoMesh
    /\ mret = NoMCall("new")

\* Mesh::transform
MeshTransform(matrix) ==
    /\ \A k \in 1..Len(mesh.vertices) : InBounds(mul_position(matrix, mesh.vertices[k]))
    /\ mesh' = Mesh_transform(mesh, matrix)
    /\ mret' = NoMCall("transform")
    /\ UNCHANGED notMeshVars

\* Mesh::move_to, for the positions and anchors that keep the vertices on
\* the grid
MeshMoveTo(position, anchor) ==
    /\ Whole(move_to_by(mesh, position, anchor))
    /\ \A k \in 1..Len(mesh.vertices) :
           InBounds(mul_position(Matrix_translate(Ints(move_to_by(mesh, position, anchor))),
                                 mesh.vertices[k]))
    /\ mesh' = Mesh_move_to(mesh, position, anchor)
    /\ mret' = NoMCall("move_to")
    /\ UNCHANGED notMeshVars

\* Mesh::fit_inside, for the boxes and anchors that keep the vertices on the
\* grid
MeshFitInside(bx, anchor) ==
    /\ fit_scale(mesh, bx).d = 1
    /\ Whole(fit_shift(mesh, bx, anchor))
    /\ \A k \in 1..Len(mesh.vertices) :
           InBounds(mul_position(fit_matrix(mesh, bx, anchor), mesh.vertices[k]))
    /\ mesh' = Mesh_fit_inside(mesh, bx, anchor)
    /\ mret' = NoMCall("fit_inside")
    /\ UNCHANGED notMeshVars

\* Mesh::compile
MeshCompile ==
    /\ mesh' = Mesh_compile(mesh).mesh
    /\ mret' = [NoMCall("compile") EXCEPT !.built = Mesh_compile(mesh).built]
    /\ UNCHANGED notMeshVars

\* Mesh::intersect
MeshIntersect(r) ==
    /\ mret' = [NoMCall("intersect") EXCEPT !.ray = r, !.hit = Mesh_intersect(mesh, r)]
    /\ UNCHANGED mesh
    /\ UNCHANGED notMeshVars

\* Mesh::paths, the counter's entries handed out in one of the orders
MeshPaths(order) ==
    /\ mret' = [NoMCall("paths") EXCEPT !.paths = Mesh_paths(mesh, order)]
    /\ UNCHANGED mesh
    /\ UNCHANGED notMeshVars

\* ---- callers sharing one mesh
\* compile takes `&mut self` and intersect `&self`: a caller is inside compile
\* only while it holds the one exclusive borrow of the mesh, and inside
\* intersect only while it holds a shared borrow; a call that cannot borrow
\* waits.  Each caller moves through
\*   idle -> called -> check -> build -> store -> return -> idle   (compile)
\*   idle -> asked -> read -> idle                                  (intersect)
Callers == {"first", "second"}
Nobody == "nobody"

\* A slip: the exclusive borrow is not enforced.
BorrowMut_unchecked(c) == TRUE

\* `&mut self`: no other borrow of the mesh is live.
BorrowMut(c) == holder = Nobody /\ readers = {}

\* `&self`: no exclusive borrow of the mesh is live.
BorrowShared(c) == holder = Nobody

Caller0 ==
    [pc |-> "idle", tree |-> None, raced |-> FALSE, built |-> FALSE,
     after |-> FALSE, ray |-> Ray(Vec(0, 0, 0), Vec(1, 1, 1)), saw |-> "nothing",
     hit |-> NoHit]

CompileInit ==
    /\ cmesh \in {Mesh_new(triangles) : triangles \in {Square, Tetrahedron}}
    /\ holder = Nobody
    /\ readers = {}
    /\ cs = [c \in Callers |-> Caller0]
    /\ builds = 0
    /\ returned = FALSE

\* The callers group at rest, in the specifications of the other groups.
CompileIdle ==
    /\ cmesh = NoMesh
    /\ holder = Nobody
    /\ readers = {}
    /\ cs = [c \in Callers |-> Caller0]
    /\ builds = 0
    /\ returned = FALSE

\* A caller invokes compile; the call is concurrent with another caller's
\* compile when that caller is inside compile now.
CompileCall(c) ==
    /\ cs[c].pc = "idle"
    /\ cs' = [cs EXCEPT ![c].pc = "called", ![c].built = FALSE,
                        ![c].raced = \E d \in Callers \ {c} :
                            cs[d].pc \in {"check", "build", "store", "return"}]
    /\ UNCHANGED <<cmesh, holder, readers, builds, returned>>
    /\ UNCHANGED notCompileVars

\* compile is entered with the exclusive borrow
CompileEnter(c) ==
    /\ cs[c].pc = "called"
    /\ BorrowMut(c)
    /\ holder' = c
    /\ cs' = [cs EXCEPT ![c].pc = "check"]
    /\ UNCHANGED <<cmesh, readers, builds, returned>>
    /\ UNCHANGED notCompileVars

\* if self.tree.is_none()
CompileCheck(c) ==
    /\ cs[c].pc = "check"
    /\ cs' = [cs EXCEPT ![c].pc = IF cmesh.tree = None THEN "build" ELSE "return"]
    /\ UNCHANGED <<cmesh, holder, readers, builds, returned>>
    /\ UNCHANGED notCompileVars

\* Tree::new(self.triangles() ...)
CompileBuild(c) ==
    /\ cs[c].pc = "build"
    /\ cs' = [cs EXCEPT ![c].pc = "store", ![c].built = TRUE,
                        ![c].tree = Some(Tree_new(Mesh_triangles(cmesh)))]
    /\ builds' = builds + 1
    /\ UNCHANGED <<cmesh, holder, readers, returned>>
    /\ UNCHANGED notCompileVars

\* self.tree = Some(...)
CompileStore(c) ==
    /\ cs[c].pc = "store"
    /\ cmesh' = [cmesh EXCEPT !.tree = cs[c].tree]
    /\ cs' = [cs EXCEPT ![c].pc = "return", ![c].tree = None]
    /\ UNCHANGED <<holder, readers, builds, returned>>
    /\ UNCHANGED notCompileVars

\* compile returns and its borrow ends
CompileReturn(c) ==
    /\ cs[c].pc = "return"
    /\ holder' = IF holder = c THEN Nobody ELSE holder
    /\ returned' = TRUE
    /\ cs' = [cs EXCEPT ![c].pc = "idle"]
    /\ UNCHANGED <<cmesh, readers, builds>>
    /\ UNCHANGED notCompileVars

\* A caller invokes intersect, after a compile has returned or not.
IntersectCall(c, r) ==
    /\ cs[c].pc = "idle"
    /\ cs' = [cs EXCEPT ![c].pc = "asked", ![c].ray = r, ![c].after = returned]
    /\ UNCHANGED <<cmesh, holder, readers, builds, returned>>
    /\ UNCHANGED notCompileVars

\* intersect is entered with a shared borrow
IntersectEnter(c) ==
    /\ cs[c].pc = "asked"
    /\ BorrowShared(c)
    /\ readers' = readers \cup {c}
    /\ cs' = [cs EXCEPT ![c].pc = "read"]
    /\ UNCHANGED <<cmesh, holder, builds, returned>>
    /\ UNCHANGED notCompileVars

\* self.tree.as_ref().map_or(Hit::no_hit(), |tree| tree.intersect(r))
IntersectRead(c) ==
    /\ cs[c].pc = "read"
    /\ cs' = [cs EXCEPT ![c].pc = "idle",
                        ![c].saw = IF cmesh.tree = None THEN "absent" ELSE "tree",
                        ![c].hit = Mesh_intersect(cmesh, cs[c].ray)]
    /\ readers' = readers \ {c}
    /\ UNCHANGED <<cmesh, holder, builds, returned>>
    /\ UNCHANGED notCompileVars

(***************************************************************************)
(* The primitives: cube.rs, cylinder.rs, sphere.rs, triangle.rs            *)
(***************************************************************************)
\* Largest stripe count tried below the special values.
MaxStripes == 8

\* What paths() returns: a Paths, or a panic instead of it.
Returned(ps) == [panic |-> FALSE, paths |-> ps]
Panic == [panic |-> TRUE, paths |-> <<>>]

Vanilla == [tag |-> "Vanilla", n |-> 0]
Outline == [tag |-> "Outline", n |-> 0]
Striped(n) == [tag |-> "Striped", n |-> n]

\* ---- cube.rs
Cube(min, max, texture) ==
    [kind |-> "Cube", min |-> min, max |-> max, texture |-> texture]

Cube_contains(c, v, f) ==
    IF v.x < c.min.x - f \/ v.x > c.max.x + f THEN FALSE
    ELSE IF v.y < c.min.y - f \/ v.y > c.max.y + f THEN FALSE
    ELSE IF v.z < c.min.z - f \/ v.z > c.max.z + f THEN FALSE
    ELSE TRUE

\* i as f64 / stripes as f64: the loop runs i over 0..=stripes, so a zero
\* divisor only ever meets i = 0, and 0.0 / 0.0 is NaN.
StripeFraction(i, stripes) == IF stripes = 0 THEN NaN ELSE Frac(i, stripes)

\* A slip: the four strokes pushed on the last turn of the loop as well.
Cube_stripe_every(c, stripes, i) ==
    LET x1 == FInt(c.min.x)  y1 == FInt(c.min.y)  z1 == FInt(c.min.z)
        x2 == FInt(c.max.x)  y2 == FInt(c.max.y)  z2 == FInt(c.max.z)
        p  == StripeFraction(i, stripes)
        x  == FAdd(x1, FMul(FSub(x2, x1), p))
        y  == FAdd(y1, FMul(FSub(y2, y1), p))
        x_ == FSub(x2, FMul(FSub(x2, x1), p))
        y_ == FSub(y2, FMul(FSub(y2, y1), p))
        strokes == << <<Vec(x, y1, z1), Vec(x, y1, z2)>>,
                      <<Vec(x_, y2, z1), Vec(x_, y2, z2)>>,
                      <<Vec(x1, y_, z1), Vec(x1, y_, z2)>>,
                      <<Vec(x2, y, z1), Vec(x2, y, z2)>> >>
        ring(z) == << <<Vec(x, y, z), Vec(x_, y, z)>>,
                      <<Vec(x, y, z), Vec(x, y_, z)>> >>
    IN strokes \o ring(z1) \o ring(z2)

\* The body of the loop of paths_striped for one i.
Cube_stripe(c, stripes, i) ==
    LET x1 == FInt(c.min.x)  y1 == FInt(c.min.y)  z1 == FInt(c.min.z)
        x2 == FInt(c.max.x)  y2 == FInt(c.max.y)  z2 == FInt(c.max.z)
        p  == StripeFraction(i, stripes)
        x  == FAdd(x1, FMul(FSub(x2, x1), p))
        y  == FAdd(y1, FMul(FSub(y2, y1), p))
        x_ == FSub(x2, FMul(FSub(x2, x1), p))
        y_ == FSub(y2, FMul(FSub(y2, y1), p))
        strokes == IF i # stripes
                   THEN << <<Vec(x, y1, z1), Vec(x, y1, z2)>>,
                           <<Vec(x_, y2, z1), Vec(x_, y2, z2)>>,
                           <<Vec(x1, y_, z1), Vec(x1, y_, z2)>>,
                           <<Vec(x2, y, z1), Vec(x2, y, z2)>> >>
                   ELSE <<>>
        ring(z) == << <<Vec(x, y, z), Vec(x_, y, z)>>,
                      <<Vec(x, y, z), Vec(x, y_, z)>> >>
    IN strokes \o ring(z1) \o ring(z2)

RECURSIVE Cube_paths_striped_from(_, _, _)
Cube_paths_striped_from(c, stripes, i) ==
    IF i > stripes THEN <<>>
    ELSE Cube_stripe(c, stripes, i) \o Cube_paths_striped_from(c, stripes, i + 1)

Cube_paths_striped(c, stripes) == Returned(Cube_paths_striped_from(c, stripes, 0))

\* A slip: the plain cube drawn with two stripes per face.
Cube_paths_vanilla2(c) ==
    IF c.texture.tag = "Vanilla" THEN Cube_paths_striped(c, 2)
    ELSE Cube_paths_striped(c, c.texture.n)

Cube_paths(c) ==
    IF c.texture.tag = "Vanilla" THEN Cube_paths_striped(c, 1)
    ELSE Cube_paths_striped(c, c.texture.n)

\* Cube::intersect: the slab parameters, then the exit for a ray that starts
\* inside and the entry for one that starts outside.
Cube_intersect(c, r) ==
    LET nx == Frac(c.min.x - r.origin.x, r.direction.x)
        fx == Frac(c.max.x - r.origin.x, r.direction.x)
        ny == Frac(c.min.y - r.origin.y, r.direction.y)
        fy == Frac(c.max.y - r.origin.y, r.direction.y)
        nz == Frac(c.min.z - r.origin.z, r.direction.z)
        fz == Frac(c.max.z - r.origin.z, r.direction.z)
        t0 == FMax(FMax(FMin(nx, fx), FMin(ny, fy)), FMin(nz, fz))
        t1 == FMin(FMin(FMax(nx, fx), FMax(ny, fy)), FMax(nz, fz))
    IN IF FLt(t0, Frac(1, 1000)) /\ FLt(Frac(1, 1000), t1) THEN Hit_new(t1)
       ELSE IF ~FLt(t0, Frac(1, 1000)) /\ FLt(t0, t1) THEN Hit_new(t0)
       ELSE NoHit

\* ---- cylinder.rs
Cylinder(radius, z0, z1, texture) ==
    [kind |-> "Cylinder", radius |-> radius, z0 |-> z0, z1 |-> z1, texture |-> texture]

\* The point (radius * cos(radians(a)), radius * sin(radians(a)), z), kept by
\* its azimuth a in whole degrees.
AtAzimuth(radius, a, z) == [radius |-> radius, azimuth |-> a, z |-> z]

\* (0..360).step_by(step): 0, step, 2 * step, ... below 360.
Cylinder_paths_striped(c, num) ==
    IF num = 0 THEN Panic                       \* 360 / num divides by zero
    ELSE LET step == 360 \div num
         IN IF step = 0 THEN Panic              \* step_by(0) asserts step != 0
            ELSE Returned([k \in 1..((360 + step - 1) \div step) |->
                     <<AtAzimuth(c.radius, (k - 1) * step, c.z0),
                       AtAzimuth(c.radius, (k - 1) * step, c.z1)>>])

\* paths_outline by the polylines it returns; the sampled points of an arc
\* are not followed.
Cylinder_paths_outline(c, eye) ==
    LET r == c.radius
        ab == eye.x * eye.x + eye.y * eye.y
        arc(name, z) == [arc |-> name, z |-> z] 
    IN IF SqrtLt(ab, Abs(r))                    \* (r / sqrt_ab).abs() > 1.0
       THEN Returned(<<arc("full", c.z0), arc("full", c.z1)>>)
       ELSE Returned(<<arc("front", c.z0), arc("front", c.z1),
                       arc("back", c.z0), arc("back", c.z1),
                       arc("tangent1", c.z0), arc("tangent2", c.z0)>>)

Cylinder_paths(c, eye) ==
    IF c.texture.tag = "Outline" THEN Cylinder_paths_outline(c, eye)
    ELSE Cylinder_paths_striped(c, c.texture.n)

Cylinder_contains(c, v, f) ==
    IF SqrtGt(v.x * v.x + v.y * v.y, c.radius + f) THEN FALSE
    ELSE v.z >= c.z0 - f /\ v.z <= c.z1 + f

\* ---- sphere.rs
Sphere(center, radius) == [center |-> center, radius |-> radius]

OutlineSphere(center, radius) == [kind |-> "OutlineSphere", sphere |-> Sphere(center, radius)]

Sphere_contains(s, v, f) == ~SqrtGt(distance_squared(v, s.center), s.radius + f)

OutlineSphere_contains(o, v, f) == Sphere_contains(o.sphere, v, f)

\* OutlineSphere::paths: nothing when hyp < opp, else the one silhouette
\* circle, kept by its centre offset d and radius r along the view axis:
\* d = (hyp^2 - opp^2) / hyp and r^2 = opp^2 * (hyp^2 - opp^2) / hyp^2.
OutlineSphere_paths(o, eye) ==
    LET hyp2 == distance_squared(o.sphere.center, eye)
        opp == o.sphere.radius
    IN IF SqrtLt(hyp2, opp) THEN Returned(<<>>)
       ELSE Returned(<<[silhouette |-> TRUE,
                        r_squared |-> Frac(opp * opp * (hyp2 - opp * opp), hyp2)]>>)

\* ---- triangle.rs
Triangle(v1, v2, v3) == [kind |-> "Triangle", v1 |-> v1, v2 |-> v2, v3 |-> v3]

Triangle_contains(t, v, f) == FALSE

Triangle_paths(t) == Returned(<< <<t.v1, t.v2>>, <<t.v2, t.v3>>, <<t.v3, t.v1>> >>)

\* ---- the Shape trait: dispatch on the shape
MeshShape(triangles) == [kind |-> "Mesh", mesh |-> Mesh_new(triangles)]

Shape_paths(s, eye, order) ==
    CASE s.kind = "Cube" -> Cube_paths(s)
      [] s.kind = "Cylinder" -> Cylinder_paths(s, eye)
      [] s.kind = "OutlineSphere" -> OutlineSphere_paths(s, eye)
      [] s.kind = "Triangle" -> Triangle_paths(s)
      [] s.kind = "Mesh" -> Returned(Mesh_paths(s.mesh, order))

Shape_contains(s, v, f) ==
    CASE s.kind = "Cube" -> Cube_contains(s, v, f)
      [] s.kind = "Cylinder" -> Cylinder_contains(s, v, f)
      [] s.kind = "OutlineSphere" -> OutlineSphere_contains(s, v, f)
      [] s.kind = "Triangle" -> Triangle_contains(s, v, f)
      [] s.kind = "Mesh" -> Mesh_contains(s.mesh, v, f)

\* ---- the shapes, eyes and points tried
StripeCounts == 0..MaxStripes \cup {360, 361}

Cubes ==
    {Cube(mn, mx, t) : mn \in {Vec(0, 0, 0), Vec(-1, -2, -3)},
                       mx \in {Vec(1, 1, 1), Vec(2, 3, 4)},
                       t \in {Vanilla} \cup {Striped(n) : n \in 0..MaxStripes}}
Cylinders ==
    {Cylinder(r, 0, 2, t) : r \in {1, 2},
                            t \in {Outline} \cup {Striped(n) : n \in StripeCounts}}
OutlineSpheres ==
    {OutlineSphere(c, r) : c \in {Vec(0, 0, 0), Vec(1, 0, 0)}, r \in {1, 5}}
Triangles ==
    {Triangle(Vec(0, 0, 0), Vec(2, 0, 0), Vec(0, 2, 0)),
     Triangle(Vec(0, 0, 0), Vec(0, 0, 2), Vec(2, 0, 0))}

Meshes == {MeshShape(triangles) : triangles \in {Tetrahedron, Square}}

Eyes == {Vec(4, 3, 2), Vec(3, 4, 0), Vec(0, 0, 0), Vec(1, 0, 0), Vec(0, 0, 6)}
Points == {Vec(0, 0, 0), Vec(1, 1, 1), Vec(3, 0, 0), Vec(0, 0, 5), Vec(2, 0, 1)}
Inflations == {0, 1}

\* Rays at the cubes: from inside, from a face, an edge and a corner, and from
\* outside, towards the cube and away from it.
CubeRays ==
    {Ray(o, d) : o \in {Vec(0, 0, 0), Vec(1, 1, 1), Vec(0, 1, 2), Vec(2, 3, 4),
                        Vec(-3, -3, -4), Vec(5, 4, 6)},
                 d \in {Vec(1, 1, 1), Vec(-1, -1, -1), Vec(1, -1, 2), Vec(-2, 1, 1)}}

Call(name, eye, v, f, r, inside) ==
    [call |-> name, eye |-> eye, v |-> v, f |-> f,
     panic |-> r.panic, paths |-> r.paths, inside |-> inside,
     ray |-> Ray(Vec(0, 0, 0), Vec(1, 1, 1)), hit |-> NoHit]
NoCall == Call("new", Vec(0, 0, 0), Vec(0, 0, 0), 0, Returned(<<>>), FALSE)

ShapeInit ==
    /\ shape \in Cubes \cup Cylinders \cup OutlineSpheres \cup Triangles \cup Meshes
    /\ ret = NoCall

\* The primitives group at rest, in the specifications of the other groups.
ShapeIdle ==
    /\ shape = Triangle(Vec(0, 0, 0), Vec(0, 0, 0), Vec(0, 0, 0))
    /\ ret = NoCall

\* Shape::paths with the eye of the render; a mesh hands out its counter's
\* entries in one of the orders
ShapePaths(eye, order) ==
    /\ ret' = Call("paths", eye, Vec(0, 0, 0), 0, Shape_paths(shape, eye, order), FALSE)
    /\ UNCHANGED shape
    /\ UNCHANGED notShapeVars

\* Shape::contains
ShapeContains(v, f) ==
    /\ ret' = Call("contains", Vec(0, 0, 0), v, f, Returned(<<>>), Shape_contains(shape, v, f))
    /\ UNCHANGED shape
    /\ UNCHANGED notShapeVars

\* Cube::intersect
CubeIntersect(r) ==
    /\ shape.kind = "Cube"
    /\ ret' = [NoCall EXCEPT !.call = "intersect", !.ray = r, !.hit = Cube_intersect(shape, r)]
    /\ UNCHANGED shape
    /\ UNCHANGED notShapeVars

(***************************************************************************)
(* function.rs: a height field z = f(x, y) clipped to a box.  Coordinates  *)
(* of this group count eighths of a unit, so that the grid spacing 1/8 is  *)
(* the integer GridSize.                                                   *)
(***************************************************************************)
FnUnit == 8

Above == "Above"
Below == "Below"

Function(func, bx, direction, step) ==
    [kind |-> "Function", func |-> func, bx |-> bx, direction |-> direction,
     texture |-> "Grid", step |-> step]

\* (self.func)(x, y) for the height fields tried: a plane at z = 0, a ramp
\* rising along both axes, and a ridge along the line x = y.
func(self, x, y) ==
    CASE self.func = "flat" -> 0
      [] self.func = "ramp" -> x + y
      [] self.func = "ridge" -> 8 - Abs(x - y)

\* Function::contains
Function_contains(self, v) ==
    IF self.direction = Below THEN v.z < func(self, v.x, v.y)
    ELSE v.z > func(self, v.x, v.y)

\* Box::contains
Box_contains(b, v) ==
    /\ b.min.x <= v.x /\ v.x <= b.max.x
    /\ b.min.y <= v.y /\ v.y <= b.max.y
    /\ b.min.z <= v.z /\ v.z <= b.max.z

\* Ray::position at a whole parameter t
Ray_position(ray, t) ==
    Vec(ray.origin.x + ray.direction.x * t,
        ray.origin.y + ray.direction.y * t,
        ray.origin.z + ray.direction.z * t)

\* 1e-3 of a unit
Thousandth == Frac(FnUnit, 1000)

\* A slip: a sample is taken for the hit wherever the side changes, inside
\* the box or not.
RECURSIVE Function_march_unboxed(_, _, _, _, _)
Function_march_unboxed(self, ray, t, t_max, sign) ==
    IF ~FLt(FInt(t), t_max) THEN NoHit
    ELSE IF Function_contains(self, Ray_position(ray, t + self.step)) # sign
    THEN Hit_new(FInt(t + self.step))
    ELSE Function_march_unboxed(self, ray, t + self.step, t_max, sign)

\* The march of Function::intersect from parameter t on: the parameters
\* marched are whole numbers here.
RECURSIVE Function_march(_, _, _, _, _)
Function_march(self, ray, t, t_max, sign) ==
    IF ~FLt(FInt(t), t_max) THEN NoHit
    ELSE LET next == t + self.step
             v == Ray_position(ray, next)
         IN IF Function_contains(self, v) # sign /\ Box_contains(self.bx, v)
            THEN Hit_new(FInt(next))
            ELSE Function_march(self, ray, next, t_max, sign)

\* The parameter the march starts from and the one it ends at; None when
\* the ray misses the box.
Function_enter(self, ray) ==
    LET o == ray.origin
        d == ray.direction
        nx == Frac(self.bx.min.x - o.x, d.x)  fx == Frac(self.bx.max.x - o.x, d.x)
        ny == Frac(self.bx.min.y - o.y, d.y)  fy == Frac(self.bx.max.y - o.y, d.y)
        nz == Frac(self.bx.min.z - o.z, d.z)  fz == Frac(self.bx.max.z - o.z, d.z)
        t0 == FMax(FMax(FMin(nx, fx), FMin(ny, fy)), FMin(nz, fz))
        t1 == FMin(FMin(FMax(nx, fx), FMax(ny, fy)), FMax(nz, fz))
    IN IF FLt(t0, Thousandth) /\ FLt(Thousandth, t1)
       THEN Some([t |-> FInt(self.step), t_max |-> t1])
       ELSE IF ~FLt(t0, Thousandth) /\ FLt(t0, t1)
       THEN Some([t |-> t0, t_max |-> t1])
       ELSE None

\* Function::intersect
Function_intersect(self, ray) ==
    LET e == Function_enter(self, ray)
    IN IF e = None THEN NoHit
       ELSE CASE e[1].t.d = 1 ->
                Function_march(self, ray, e[1].t.n, e[1].t_max,
                               Function_contains(self, Ray_position(ray, e[1].t.n)))

\* ---- the Grid texture
\* RenderArgs as far as the Function reads them: the eye, the screen matrix
\* and the screen-space step.
RenderArgs(eye, screen_mat, step) == [eye |-> eye, screen_mat |-> screen_mat, step |-> step]

\* Matrix::mul_position_w for a matrix whose last row is (0, 0, 0, 1)
mul_position_w(m, v) == mul_position(m, v)

\* The point at t along the line of constant x = c (axis "x") or constant
\* y = c (axis "y"), at height z.
Grid_point(axis, c, t, z) == IF axis = "x" THEN Vec(c, t, z) ELSE Vec(t, c, z)

\* The closure f of paths_grid: the height field along the line, clamped to
\* the box.
Grid_f(self, axis, c, t) ==
    LET z == IF axis = "x" THEN func(self, c, t) ELSE func(self, t, c)
    IN Max(Min(z, self.bx.max.z), self.bx.min.z)

\* The closure that ends the subdivision: the two samples are closer than the
\* step on the screen, or coincide.
Grid_close(axis, c, a, b, args) ==
    \/ distance_squared(mul_position_w(args.screen_mat, Grid_point(axis, c, a[1], a[2])),
                        mul_position_w(args.screen_mat, Grid_point(axis, c, b[1], b[2])))
           < args.step * args.step
    \/ a[1] = b[1]

\* recursive_subdivide with the closures of paths_grid: the samples pushed
\* after a, up to b.  A sample is <<t, f(t)>>.
RECURSIVE Grid_subdivide(_, _, _, _, _, _)
Grid_subdivide(self, axis, c, a, b, args) ==
    IF Grid_close(axis, c, a, b, args) THEN <<b>>
    ELSE CASE (a[1] + b[1]) % 2 = 0 ->
             Grid_subdivide(self, axis, c, a,
                            <<(a[1] + b[1]) \div 2, Grid_f(self, axis, c, (a[1] + b[1]) \div 2)>>,
                            args)
             \o Grid_subdivide(self, axis, c,
                               <<(a[1] + b[1]) \div 2, Grid_f(self, axis, c, (a[1] + b[1]) \div 2)>>,
                               b, args)

\* One line of the grid before its offsets: the first sample and the samples
\* the subdivision pushes.
Grid_samples(self, axis, c, lo, hi, args) ==
    <<<<lo, Grid_f(self, axis, c, lo)>>>>
    \o Grid_subdivide(self, axis, c, <<lo, Grid_f(self, axis, c, lo)>>,
                      <<hi, Grid_f(self, axis, c, hi)>>, args)

Grid_line(self, axis, c, lo, hi, args) ==
    LET samples == Grid_samples(self, axis, c, lo, hi, args)
    IN [k \in 1..Len(samples) |-> Grid_point(axis, c, samples[k][1], samples[k][2])]

\* ---- zvisible_offset
FAbs(a) == [n |-> Abs(a.n), d |-> a.d]

\* The square root of a perfect square.
ISqrt(n) == CHOOSE r \in 0..n : r * r = n

\* The offset the loop finds at the inner vertex i: how far the vertex stands
\* off the chord of its neighbours, when it stands on the eye's side of it.
zvisible_at(path, i, ez) ==
    LET a == path[i - 1]
        c == path[i]
        b == path[i + 1]
        z == FAdd(FInt(a.z),
                  FMul(FInt(b.z - a.z),
                       Frac(ISqrt((a.x - c.x) * (a.x - c.x) + (a.y - c.y) * (a.y - c.y)),
                            ISqrt((a.x - b.x) * (a.x - b.x) + (a.y - b.y) * (a.y - b.y)))))
    IN IF FLt(z, FInt(c.z)) = FLt(z, FInt(ez)) THEN FSub(FInt(c.z), z) ELSE FInt(0)

\* offsets[k] is replaced by an offset of greater magnitude.
zvisible_raise(offsets, k, offset) ==
    IF FLt(FAbs(offsets[k]), FAbs(offset)) THEN [offsets EXCEPT ![k] = offset] ELSE offsets

\* The loop over the inner vertices from i on.
RECURSIVE zvisible_offsets(_, _, _, _)
zvisible_offsets(path, ez, i, offsets) ==
    IF i > Len(path) - 1 THEN offsets
    ELSE CASE Len(offsets) = Len(path) ->
             zvisible_offsets(path, ez, i + 1,
                 zvisible_raise(zvisible_raise(offsets, i - 1, zvisible_at(path, i, ez)),
                                i + 1, zvisible_at(path, i, ez)))

\* zvisible_offset: every vertex moved along z by its offset; z is an exact
\* fraction afterwards.
zvisible_lift(path, offsets) ==
    [k \in 1..Len(path) |->
        Vec(path[k].x, path[k].y, FAdd(FInt(path[k].z), offsets[k]))]

zvisible_offset(path, eye) ==
    zvisible_lift(path, zvisible_offsets(path, eye.z, 2, [k \in 1..Len(path) |-> FInt(0)]))

\* Function::paths_grid: the lines of constant x, then the lines of constant
\* y, each from the box's low side while the coordinate is within the box.
paths_grid(self, args, grid_size) ==
    [k \in 1..((self.bx.max.x - self.bx.min.x) \div grid_size + 1) |->
        zvisible_offset(Grid_line(self, "x", self.bx.min.x + (k - 1) * grid_size,
                                  self.bx.min.y, self.bx.max.y, args), args.eye)]
    \o [k \in 1..((self.bx.max.y - self.bx.min.y) \div grid_size + 1) |->
        zvisible_offset(Grid_line(self, "y", self.bx.min.y + (k - 1) * grid_size,
                                  self.bx.min.x, self.bx.max.x, args), args.eye)]

\* Function::paths with the Grid texture: grid_size is 1.0 / 8.0
Function_paths(self, args) == paths_grid(self, args, FnUnit \div 8)

\* ---- the functions, rays and render arguments tried
\* Largest march step of a Function, in eighths of a unit.
MaxFnStep == 3

FnBoxes ==
    {Box(Vec(0, 0, 0), Vec(8, 8, 8)), Box(Vec(0, 0, 0), Vec(16, 16, 8)),
     Box(Vec(0, 0, 0), Vec(4, 4, 8))}

Functions ==
    {Function(f, bx, direction, step) :
        f \in {"flat", "ramp", "ridge"}, bx \in FnBoxes,
        direction \in {Above, Below}, step \in 1..MaxFnStep}

FnRays ==
    { Ray(Vec(1, 1, 12), Vec(1, 1, -1)),
      Ray(Vec(1, 1, 7), Vec(1, 1, -1)),
      Ray(Vec(-2, 3, 9), Vec(1, 1, -1)),
      Ray(Vec(7, 7, 1), Vec(-1, -1, 1)),
      Ray(Vec(2, 6, -3), Vec(1, -1, 1)),
      Ray(Vec(3, 1, 2), Vec(-1, 1, 1)),
      Ray(Vec(20, 20, 20), Vec(1, 1, 1)) }

FnArgs ==
    {RenderArgs(eye, Matrix_scale(Vec(k, k, k)), step) :
        eye \in {Vec(32, 24, 16), Vec(0, 0, -8)}, k \in {1, 2}, step \in {3, 20}}

NoFnCall(name) ==
    [call |-> name, args |-> RenderArgs(Vec(0, 0, 0), Matrix_scale(Vec(1, 1, 1)), 0),
     ray |-> Ray(Vec(0, 0, 0), Vec(1, 1, 1)), hit |-> NoHit, paths |-> <<>>]

FunctionInit ==
    /\ fn \in Functions
    /\ fret = NoFnCall("new")

\* The Function group at rest, in the specifications of the other groups.
FunctionIdle ==
    /\ fn = Function("flat", Box(Vec(0, 0, 0), Vec(0, 0, 0)), Below, 1)
    /\ fret = NoFnCall("new")

\* Function::paths
FunctionPaths(args) ==
    /\ fret' = [NoFnCall("paths") EXCEPT !.args = args, !.paths = Function_paths(fn, args)]
    /\ UNCHANGED fn
    /\ UNCHANGED notFnVars

\* Function::intersect
FunctionIntersect(ray) ==
    /\ fret' = [NoFnCall("intersect") EXCEPT !.ray = ray, !.hit = Function_intersect(fn, ray)]
    /\ UNCHANGED fn
    /\ UNCHANGED notFnVars

(***************************************************************************)
(* sphere.rs: the seeded textures                                          *)
(***************************************************************************)
RandomEquators(seed) == [kind |-> "RandomEquators", seed |-> seed]
RandomFuzz(seed) == [kind |-> "RandomFuzz", seed |-> seed]
RandomCircles(seed) == [kind |-> "RandomCircles", seed |-> seed]

\* Sphere::new(center, radius).with_texture(texture)
Sphere_with_texture(self, texture) ==
    [center |-> self.center, radius |-> self.radius, texture |-> texture]

\* ---- the generator.  SmallRng is a generator whose state after
\* seed_from_u64 is a function of the seed alone and whose every draw is a
\* function of the state; it is kept as a full-period congruential generator
\* over sixteen states.
\* A generator continuing where the last call on the sphere left its own.
SmallRng_continued(seed) == sret.rng

SmallRng_seed_from_u64(seed) == (7 * seed + 1) % 16

SmallRng_next(rng) == (5 * rng + 3) % 16

\* The unit vectors drawn: the six along the axes.
UnitVectors ==
    <<Vec(1, 0, 0), Vec(0, 1, 0), Vec(0, 0, 1), Vec(-1, 0, 0), Vec(0, -1, 0), Vec(0, 0, -1)>>

\* Vector::random_unit_vector(&mut rng): the vector and the generator after.
random_unit_vector(rng) ==
    [v |-> UnitVectors[(SmallRng_next(rng) % 6) + 1], rng |-> SmallRng_next(rng)]

\* rng.random::<f64>(), a value in [0, 1), in thousandths
random_f64(rng) == [x |-> (SmallRng_next(rng) * 1000) \div 16, rng |-> SmallRng_next(rng)]

\* rng.random_range(lo..=hi)
random_range(rng, lo, hi) ==
    [n |-> lo + (SmallRng_next(rng) % (hi - lo + 1)), rng |-> SmallRng_next(rng)]

\* The vector of three NaNs, which normalize makes of the zero vector.  A
\* unit vector is kept as the shortest integer vector of its direction, so
\* (0, 0, 0), which no direction has, is free to stand for it.
NaNVec == Vec(0, 0, 0)

\* a.cross(b).normalize()
cross_normalize(a, b) ==
    IF cross(a, b) = Vec(0, 0, 0) THEN NaNVec ELSE normalize(cross(a, b))

\* ---- recursive_arc_subdivide and radius_expansion.  A circle is cut into
\* 2^level equal arcs, each of half-angle theta = PI / 2^level.  Lengths
\* that are not whole are kept in fixed point: squared radii in hundredths,
\* the small angular radii of the circles in thousandths.
\* theta * sin(theta) in thousandths, for level 1 .. 7.
ThetaSinTheta == <<1571, 555, 150, 38, 10, 2, 1>>

\* The squared length the screen matrix gives the unit vector u.
screen_scale_sq(screen_mat, u) ==
    length_squared(sub(mul_position_w(screen_mat, u), mul_position_w(screen_mat, Vec(0, 0, 0))))

\* The closure handed to recursive_subdivide: theta < PI / 180, or the arc
\* is short on the screen and theta < PI / 3.  The chord between the ends of
\* an arc of a circle of radius r has squared length 4 r^2 sin(theta)^2 times
\* the scale of the screen matrix; with a NaN plane no comparison holds.
arc_close(level, r_squared, cuv, screen_mat, step_sq) ==
    \/ level >= 8
    \/ /\ level >= 2
       /\ cuv.u # NaNVec
       /\ cuv.v # NaNVec
       /\ 4 * screen_scale_sq(screen_mat, cuv.u) * ThetaSinTheta[level] * r_squared
              < step_sq * 100000

\* recursive_arc_subdivide followed by the map over radius_expansion: the
\* polyline of the circle in the plane (c, u, v), kept by its plane, its
\* squared radius and the number of equal arcs it is cut into (which fix the
\* angles, the expanded radii and with them every vertex).
arc_path(r_squared, cuv, screen_mat, step_sq) ==
    [c |-> cuv.c, u |-> cuv.u, v |-> cuv.v, r_squared |-> r_squared,
     level |-> CHOOSE level \in 0..8 :
                  /\ arc_close(level, r_squared, cuv, screen_mat, step_sq)
                  /\ \A l \in 0..(level - 1) :
                        ~arc_close(l, r_squared, cuv, screen_mat, step_sq)]

\* ---- Sphere::paths_random_equators; with the paths, the generator as
\* the call leaves it
equators_plane(self, u, w) == [c |-> self.center, u |-> u, v |-> cross_normalize(w, u)]

RECURSIVE equators_loop(_, _, _, _, _, _)
equators_loop(self, screen_mat, step, n, rng, acc) ==
    IF n = 0 THEN [paths |-> acc, rng |-> rng]
    ELSE equators_loop(self, screen_mat, step, n - 1,
            random_unit_vector(random_unit_vector(rng).rng).rng,
            Append(acc,
                   arc_path(self.radius * self.radius * 100,
                            equators_plane(self, random_unit_vector(rng).v,
                                random_unit_vector(random_unit_vector(rng).rng).v),
                            screen_mat, step * step)))

paths_random_equators(self, screen_mat, step, n, seed) ==
    equators_loop(self, screen_mat, step, n, SmallRng_seed_from_u64(seed), <<>>)

\* ---- Sphere::paths_random_fuzz.  scale is a fraction; the radii tried are
\* multiples of its denominator.
fuzz_stub(self, v, scale) ==
    <<Vec(v.x * self.radius + self.center.x, v.y * self.radius + self.center.y,
          v.z * self.radius + self.center.z),
      Vec(v.x * ((self.radius * scale.n) \div scale.d) + self.center.x,
          v.y * ((self.radius * scale.n) \div scale.d) + self.center.y,
          v.z * ((self.radius * scale.n) \div scale.d) + self.center.z)>>

RECURSIVE fuzz_loop(_, _, _, _, _)
fuzz_loop(self, num, scale, rng, acc) ==
    IF num = 0 THEN [paths |-> acc, rng |-> rng]
    ELSE fuzz_loop(self, num - 1, scale, random_unit_vector(rng).rng,
                   Append(acc, fuzz_stub(self, random_unit_vector(rng).v, scale)))

paths_random_fuzz(self, num, scale, seed) ==
    fuzz_loop(self, num, scale, SmallRng_seed_from_u64(seed), <<>>)

\* ---- Sphere::paths_random_circles
\* m = rng.random::<f64>() * 0.25 + 0.05
circles_m(x) == x \div 4 + 50

\* A slip: only the circle pushed last is compared.
circles_overlap_last(seen, radii, v, m) ==
    /\ Len(seen) > 0
    /\ distance_squared(seen[Len(seen)], v) * 1000000
           < (m + radii[Len(seen)] + 20) * (m + radii[Len(seen)] + 20) * length_squared(v)

\* other.sub(v).length() < m + radii[i] + 0.02 for some circle seen; v and the
\* centres seen are unit vectors kept by integer vectors of one length.
circles_overlap(seen, radii, v, m) ==
    \E i \in 1..Len(seen) :
        distance_squared(seen[i], v) * 1000000
            < (m + radii[i] + 20) * (m + radii[i] + 20) * length_squared(v)

\* The loop that finds a spot: the first draw that overlaps no circle seen.
RECURSIVE circles_spot(_, _, _)
circles_spot(rng, seen, radii) ==
    IF circles_overlap(seen, radii, random_unit_vector(rng).v,
                       circles_m(random_f64(random_unit_vector(rng).rng).x))
    THEN circles_spot(random_f64(random_unit_vector(rng).rng).rng, seen, radii)
    ELSE [v |-> random_unit_vector(rng).v,
          m |-> circles_m(random_f64(random_unit_vector(rng).rng).x),
          rng |-> random_f64(random_unit_vector(rng).rng).rng]

\* The plane of one circle about v: c = v * (radius / norm) + center with
\* norm = sqrt(|v|^2 + current_m^2), kept by v and norm^2 (in millionths).
circles_plane(self, v, p, current_m) ==
    [c |-> [center |-> self.center, along |-> v,
            norm_squared |-> length_squared(v) * 1000000 + current_m * current_m],
     u |-> p, v |-> cross_normalize(p, v)]

\* r^2 = (current_m * radius / norm)^2
circles_r_squared(self, v, current_m) ==
    (current_m * current_m * self.radius * self.radius * 100)
        \div (length_squared(v) * 1000000 + current_m * current_m)

\* The n concentric circles about one spot, each 0.75 of the last.
RECURSIVE circles_rings(_, _, _, _, _, _, _, _)
circles_rings(self, screen_mat, step, v, p, n, current_m, acc) ==
    IF n = 0 THEN acc
    ELSE circles_rings(self, screen_mat, step, v, p, n - 1, (current_m * 3) \div 4,
            Append(acc,
                   arc_path(circles_r_squared(self, v, current_m),
                            circles_plane(self, v, p, current_m), screen_mat, step * step)))

\* One pass of the outer loop, from the spot found: the rings are drawn in
\* the plane of p = v.cross(random_unit_vector).normalize().
circles_pass(self, screen_mat, step, st, spot) ==
    [paths |-> circles_rings(self, screen_mat, step, spot.v,
                   cross_normalize(spot.v, random_unit_vector(spot.rng).v),
                   random_range(random_unit_vector(spot.rng).rng, 1, 4).n, spot.m, st.paths),
     rng |-> random_range(random_unit_vector(spot.rng).rng, 1, 4).rng,
     seen |-> Append(st.seen, spot.v),
     radii |-> Append(st.radii, spot.m)]

RECURSIVE circles_loop(_, _, _, _, _)
circles_loop(self, screen_mat, step, num, st) ==
    IF num = 0 THEN [paths |-> st.paths, rng |-> st.rng]
    ELSE circles_loop(self, screen_mat, step, num - 1,
                      circles_pass(self, screen_mat, step, st,
                                   circles_spot(st.rng, st.seen, st.radii)))

paths_random_circles(self, screen_mat, step, num, seed) ==
    circles_loop(self, screen_mat, step, num,
                 [paths |-> <<>>, rng |-> SmallRng_seed_from_u64(seed),
                  seen |-> <<>>, radii |-> <<>>])

\* ---- Sphere::paths, for the seeded textures
\* How many equators, stubs and spots one call draws.
EquatorsN == 2
FuzzNum == 3
CirclesNum == 2

Sphere_paths(self, args) ==
    CASE self.texture.kind = "RandomEquators" ->
            paths_random_equators(self, args.screen_mat, args.step, EquatorsN,
                                  self.texture.seed)
      [] self.texture.kind = "RandomFuzz" ->
            paths_random_fuzz(self, FuzzNum, Frac(11, 10), self.texture.seed)
      [] self.texture.kind = "RandomCircles" ->
            paths_random_circles(self, args.screen_mat, args.step, CirclesNum,
                                 self.texture.seed)

\* ---- the spheres, textures and render arguments tried
Seeds == {1, 2}

SeededTextures ==
    {RandomEquators(seed) : seed \in Seeds} \cup {RandomFuzz(seed) : seed \in Seeds}
        \cup {RandomCircles(seed) : seed \in Seeds}

SeededSpheres ==
    {Sphere_with_texture(Sphere(center, 10), texture) :
        center \in {Vec(0, 0, 0), Vec(10, 0, -10)}, texture \in SeededTextures}

SphereArgs ==
    {RenderArgs(Vec(40, 30, 20), Matrix_scale(Vec(k, k, k)), step) :
        k \in {1, 3}, step \in {3, 20}}

NoSphereCall ==
    [call |-> "new", sphere |-> Sphere_with_texture(Sphere(Vec(0, 0, 0), 0), RandomFuzz(0)),
     args |-> RenderArgs(Vec(0, 0, 0), Matrix_scale(Vec(1, 1, 1)), 0),
     paths |-> <<>>, rng |-> 0]

SphereInit ==
    /\ sph \in SeededSpheres
    /\ sret = NoSphereCall
    /\ skept = NoSphereCall

\* The seeded-sphere group at rest, in the specifications of the other groups.
SphereIdle ==
    /\ sph = Sphere_with_texture(Sphere(Vec(0, 0, 0), 0), RandomFuzz(0))
    /\ sret = NoSphereCall
    /\ skept = NoSphereCall

\* What a call of paths leaves: its result and the generator it dropped.
SphereReturn(args, run, keep) ==
    /\ sret' = [call |-> "paths", sphere |-> sph, args |-> args,
                paths |-> run.paths, rng |-> run.rng]
    /\ skept' = IF keep THEN sret ELSE skept

\* Sphere::paths; the caller may keep the result of the call before it.
SpherePaths(args, keep) ==
    /\ SphereReturn(args, Sphere_paths(sph, args), keep)
    /\ UNCHANGED sph
    /\ UNCHANGED notSphereVars

\* Sphere::with_texture
SphereWithTexture(texture) ==
    /\ sph' = Sphere_with_texture(sph, texture)
    /\ UNCHANGED <<sret, skept>>
    /\ UNCHANGED notSphereVars

(***************************************************************************)
(* examples/larnt_typst: the plugin's shape tree and its render entry      *)
(***************************************************************************)
\* ---- constructor.rs: Matrix
LnRotate(v, a) == [kind |-> "Rotate", v |-> v, a |-> a, m |-> <<>>]
LnScale(v) == [kind |-> "Scale", v |-> v, a |-> 0, m |-> <<>>]
LnTranslate(v) == [kind |-> "Translate", v |-> v, a |-> 0, m |-> <<>>]
LnRaw(m) == [kind |-> "Raw", v |-> <<0, 0, 0>>, a |-> 0, m |-> m]

\* larnt::Vector::new(v[0], v[1], v[2]) of an array [f64; 3]
Vector_new(v) == Vec(v[1], v[2], v[3])

\* Matrix::rotate(v, a), for a turn of a quarter turns about the z axis
Matrix_rotate(v, a) ==
    CASE v = Vec(0, 0, 1) /\ a % 4 = 1 -> Matrix_quarter_turn

\* Matrix::to_matrix: the sixteen numbers of Raw are the rows x00 .. x33.
Matrix_to_matrix(self) ==
    CASE self.kind = "Rotate" -> Matrix_rotate(Vector_new(self.v), self.a)
      [] self.kind = "Scale" -> Matrix_scale(Vector_new(self.v))
      [] self.kind = "Translate" -> Matrix_translate(Vector_new(self.v))
      [] self.kind = "Raw" ->
            Matrix(Vec(self.m[1], self.m[2], self.m[3]), Vec(self.m[5], self.m[6], self.m[7]),
                   Vec(self.m[9], self.m[10], self.m[11]),
                   Vec(self.m[4], self.m[8], self.m[12]))

\* Matrix::from_raw; the last row of an affine matrix is (0, 0, 0, 1).
Matrix_from_raw(mat) ==
    LnRaw(<<mat.r1.x, mat.r1.y, mat.r1.z, mat.t.x, mat.r2.x, mat.r2.y, mat.r2.z, mat.t.y,
            mat.r3.x, mat.r3.y, mat.r3.z, mat.t.z, 0, 0, 0, 1>>)

\* The product taken the other way round.
Matrix_mul_swapped(a, b) ==
    Matrix(Vec(dot(b.r1, Vec(a.r1.x, a.r2.x, a.r3.x)), dot(b.r1, Vec(a.r1.y, a.r2.y, a.r3.y)),
               dot(b.r1, Vec(a.r1.z, a.r2.z, a.r3.z))),
           Vec(dot(b.r2, Vec(a.r1.x, a.r2.x, a.r3.x)), dot(b.r2, Vec(a.r1.y, a.r2.y, a.r3.y)),
               dot(b.r2, Vec(a.r1.z, a.r2.z, a.r3.z))),
           Vec(dot(b.r3, Vec(a.r1.x, a.r2.x, a.r3.x)), dot(b.r3, Vec(a.r1.y, a.r2.y, a.r3.y)),
               dot(b.r3, Vec(a.r1.z, a.r2.z, a.r3.z))),
           mul_position(b, a.t))

\* Matrix::mul: a.mul(b) is the matrix product a * b, which maps v to a(b(v)).
Matrix_mul(a, b) ==
    Matrix(Vec(dot(a.r1, Vec(b.r1.x, b.r2.x, b.r3.x)), dot(a.r1, Vec(b.r1.y, b.r2.y, b.r3.y)),
               dot(a.r1, Vec(b.r1.z, b.r2.z, b.r3.z))),
           Vec(dot(a.r2, Vec(b.r1.x, b.r2.x, b.r3.x)), dot(a.r2, Vec(b.r1.y, b.r2.y, b.r3.y)),
               dot(a.r2, Vec(b.r1.z, b.r2.z, b.r3.z))),
           Vec(dot(a.r3, Vec(b.r1.x, b.r2.x, b.r3.x)), dot(a.r3, Vec(b.r1.y, b.r2.y, b.r3.y)),
               dot(a.r3, Vec(b.r1.z, b.r2.z, b.r3.z))),
           mul_position(a, b.t))

\* The determinant of the linear part.
Matrix_determinant(a) == dot(a.r1, cross(a.r2, a.r3))

\* Matrix::inverse, by the adjugate; the matrices tried have determinant 1
\* or -1, for which dividing by the determinant is multiplying by it.
Matrix_linear_inverse(a) ==
    Matrix(Vec(cross(a.r2, a.r3).x * Matrix_determinant(a),
               cross(a.r3, a.r1).x * Matrix_determinant(a),
               cross(a.r1, a.r2).x * Matrix_determinant(a)),
           Vec(cross(a.r2, a.r3).y * Matrix_determinant(a),
               cross(a.r3, a.r1).y * Matrix_determinant(a),
               cross(a.r1, a.r2).y * Matrix_determinant(a)),
           Vec(cross(a.r2, a.r3).z * Matrix_determinant(a),
               cross(a.r3, a.r1).z * Matrix_determinant(a),
               cross(a.r1, a.r2).z * Matrix_determinant(a)),
           Vec(0, 0, 0))

Matrix_inverse(a) ==
    Matrix(Matrix_linear_inverse(a).r1, Matrix_linear_inverse(a).r2,
           Matrix_linear_inverse(a).r3,
           mul_position(Matrix_linear_inverse(a), Vec(-a.t.x, -a.t.y, -a.t.z)))

\* ---- constructor.rs: LnShape
LnCone(radius, v0, v1) == [kind |-> "Cone", radius |-> radius, v0 |-> v0, v1 |-> v1]
LnCube(min, max, texture, stripes) ==
    [kind |-> "Cube", min |-> min, max |-> max, texture |-> texture, stripes |-> stripes]
LnCylinder(radius, v0, v1) == [kind |-> "Cylinder", radius |-> radius, v0 |-> v0, v1 |-> v1]
LnSphere(center, radius, texture, seed) ==
    [kind |-> "Sphere", center |-> center, radius |-> radius, texture |-> texture,
     seed |-> seed]
LnFunction(samples, bbox, direction, texture, step) ==
    [kind |-> "Function", samples |-> samples, bbox |-> bbox, direction |-> direction,
     texture |-> texture, step |-> step]
LnTriangle(v1, v2, v3) == [kind |-> "Triangle", v1 |-> v1, v2 |-> v2, v3 |-> v3]
LnMesh(ln_shapes) == [kind |-> "Mesh", shapes |-> ln_shapes]
LnOutline(ln_shape) == [kind |-> "Outline", shape |-> ln_shape]
LnDifference(ln_shapes) == [kind |-> "Difference", shapes |-> ln_shapes]
LnIntersection(ln_shapes) == [kind |-> "Intersection", shapes |-> ln_shapes]
LnTransformation(ln_shape, matrix) ==
    [kind |-> "Transformation", shape |-> ln_shape, matrix |-> matrix]

\* ---- Result<Arc<dyn Shape>, String>, and a panic in its place
NoShape == [kind |-> "None"]
Ok(built) == [tag |-> "Ok", shape |-> built, message |-> ""]
Err(message) == [tag |-> "Err", shape |-> NoShape, message |-> message]
Panicked == [tag |-> "Panic", shape |-> NoShape, message |-> "index out of bounds"]

\* ---- the shapes the library builds, kept by their constructor's arguments
new_transformed_cone(up, v0, v1, radius) ==
    [kind |-> "TransformedCone", up |-> up, v0 |-> v0, v1 |-> v1, radius |-> radius]
new_transformed_cylinder(up, v0, v1, radius) ==
    [kind |-> "TransformedCylinder", up |-> up, v0 |-> v0, v1 |-> v1, radius |-> radius]
new_transformed_outline_cone(eye, up, v0, v1, radius) ==
    [kind |-> "TransformedOutlineCone", eye |-> eye, up |-> up, v0 |-> v0, v1 |-> v1,
     radius |-> radius]
new_transformed_outline_cylinder(eye, up, v0, v1, radius) ==
    [kind |-> "TransformedOutlineCylinder", eye |-> eye, up |-> up, v0 |-> v0, v1 |-> v1,
     radius |-> radius]
OutlineSphere_new(eye, up, center, radius) ==
    [kind |-> "OutlineSphere", eye |-> eye, up |-> up, sphere |-> Sphere(center, radius)]
LatLng == [kind |-> "LatLng", seed |-> 0]
RandomDots(seed) == [kind |-> "RandomDots", seed |-> seed]
BilinearGrid_new(width, height, data, x_range, y_range) ==
    [width |-> width, height |-> height, data |-> data, x_range |-> x_range,
     y_range |-> y_range]
Function_new(grid, bx, direction, step, texture) ==
    [kind |-> "Function", func |-> grid, bx |-> bx, direction |-> direction,
     texture |-> texture, step |-> step]
Mesh_of(triangles) == [kind |-> "Mesh", triangles |-> triangles]
new_difference(shapes) == [kind |-> "Difference", shapes |-> shapes]
new_intersection(shapes) == [kind |-> "Intersection", shapes |-> shapes]
TransformedShape_new(built, matrix) ==
    [kind |-> "TransformedShape", shape |-> built, matrix |-> matrix]

\* ---- LnShape::to_shape
\* samples[0].len(): the read panics when there is no row (kept as -1).
first_row_len(samples) == IF samples = <<>> THEN -1 ELSE Len(samples[1])

\* The two checks of the sample grid.  `samples[0]` is read only after
\* `samples.len() < 2` has failed, `||` being lazy.
samples_check(samples) ==
    IF Len(samples) < 2 THEN Err("Function samples must be at least 2x2")
    ELSE IF first_row_len(samples) < 0 THEN Panicked
    ELSE IF first_row_len(samples) < 2 THEN Err("Function samples must be at least 2x2")
    ELSE IF \E k \in 1..Len(samples) : Len(samples[k]) # first_row_len(samples)
    THEN Err("Function samples must have consistent row lengths")
    ELSE Ok(NoShape)

\* samples.into_iter().flatten().collect()
RECURSIVE flatten(_)
flatten(rows) == IF rows = <<>> THEN <<>> ELSE Head(rows) \o flatten(Tail(rows))

Function_to_shape(self) ==
    IF samples_check(self.samples).tag # "Ok" THEN samples_check(self.samples)
    ELSE IF self.direction \notin {"Below", "Above"} THEN Err("Invalid function direction")
    ELSE IF self.texture \notin {"Grid", "Swirl", "Spiral"}
    THEN Err("Invalid function texture")
    ELSE Ok(Function_new(
                BilinearGrid_new(Len(self.samples[1]), Len(self.samples),
                                 flatten(self.samples),
                                 <<self.bbox[1][1], self.bbox[2][1]>>,
                                 <<self.bbox[1][2], self.bbox[2][2]>>),
                Box(Vector_new(self.bbox[1]), Vector_new(self.bbox[2])),
                IF self.direction = "Below" THEN Below ELSE Above,
                self.step, self.texture))

Cube_to_shape(self) ==
    CASE self.texture = "Vanilla" ->
            Ok(Cube(Vector_new(self.min), Vector_new(self.max), Vanilla))
      [] self.texture = "Stripes" ->
            Ok(Cube(Vector_new(self.min), Vector_new(self.max), Striped(self.stripes)))
      [] OTHER -> Err("Invalid cube texture")

Sphere_to_shape(self) ==
    CASE self.texture = "LatLng" ->
            Ok(Sphere_with_texture(Sphere(Vector_new(self.center), self.radius), LatLng))
      [] self.texture = "RandomEquators" ->
            Ok(Sphere_with_texture(Sphere(Vector_new(self.center), self.radius),
                                   RandomEquators(self.seed)))
      [] self.texture = "RandomDots" ->
            Ok(Sphere_with_texture(Sphere(Vector_new(self.center), self.radius),
                                   RandomDots(self.seed)))
      [] self.texture = "RandomCircles" ->
            Ok(Sphere_with_texture(Sphere(Vector_new(self.center), self.radius),
                                   RandomCircles(self.seed)))
      [] OTHER -> Err("Invalid sphere parameters")

Triangle_to_shape(self) ==
    Triangle(Vector_new(self.v1), Vector_new(self.v2), Vector_new(self.v3))

Mesh_to_shape(self) ==
    IF \E k \in 1..Len(self.shapes) : self.shapes[k].kind # "Triangle"
    THEN Err("Mesh can only contain Triangle shapes")
    ELSE Ok(Mesh_of([k \in 1..Len(self.shapes) |-> Triangle_to_shape(self.shapes[k])]))

Outline_to_shape(ln_shape, eye, up) ==
    CASE ln_shape.kind = "Cone" ->
            Ok(new_transformed_outline_cone(eye, up, Vector_new(ln_shape.v0),
                                            Vector_new(ln_shape.v1), ln_shape.radius))
      [] ln_shape.kind = "Cylinder" ->
            Ok(new_transformed_outline_cylinder(eye, up, Vector_new(ln_shape.v0),
                                                Vector_new(ln_shape.v1), ln_shape.radius))
      [] ln_shape.kind = "Sphere" ->
            Ok(OutlineSphere_new(eye, up, Vector_new(ln_shape.center), ln_shape.radius))
      [] OTHER -> Err("Outline can only be applied to Cone, Cylinder, or Sphere shapes")

\* A collect that drops the children that failed.
collect_ok(results) ==
    Ok(SelectSeq([k \in 1..Len(results) |-> results[k].shape],
                 LAMBDA built : built # NoShape))

\* .collect::<Result<Vec<_>, _>>(): the first result that is not Ok, or
\* else the shapes of all of them.
collect(results) ==
    IF \E k \in 1..Len(results) : results[k].tag # "Ok"
    THEN results[CHOOSE k \in 1..Len(results) :
                    /\ results[k].tag # "Ok"
                    /\ \A j \in 1..(k - 1) : results[j].tag = "Ok"]
    ELSE Ok([k \in 1..Len(results) |-> results[k].shape])

\* `?` followed by the constructor handed the value.
and_then(res, built) == IF res.tag = "Ok" THEN Ok(built) ELSE res

RECURSIVE to_shape(_, _, _)
to_shape(self, eye, up) ==
    CASE self.kind = "Cone" ->
            Ok(new_transformed_cone(up, Vector_new(self.v0), Vector_new(self.v1),
                                    self.radius))
      [] self.kind = "Cube" -> Cube_to_shape(self)
      [] self.kind = "Cylinder" ->
            Ok(new_transformed_cylinder(up, Vector_new(self.v0), Vector_new(self.v1),
                                        self.radius))
      [] self.kind = "Sphere" -> Sphere_to_shape(self)
      [] self.kind = "Function" -> Function_to_shape(self)
      [] self.kind = "Triangle" -> Ok(Triangle_to_shape(self))
      [] self.kind = "Mesh" -> Mesh_to_shape(self)
      [] self.kind = "Outline" -> Outline_to_shape(self.shape, eye, up)
      [] self.kind = "Difference" ->
            and_then(collect([k \in 1..Len(self.shapes) |-> to_shape(self.shapes[k], eye, up)]),
                     new_difference(
                        collect([k \in 1..Len(self.shapes) |->
                                    to_shape(self.shapes[k], eye, up)]).shape))
      [] self.kind = "Intersection" ->
            and_then(collect([k \in 1..Len(self.shapes) |-> to_shape(self.shapes[k], eye, up)]),
                     new_intersection(
                        collect([k \in 1..Len(self.shapes) |->
                                    to_shape(self.shapes[k], eye, up)]).shape))
      [] self.kind = "Transformation" ->
            IF self.shape.kind = "Transformation"
            THEN to_shape(LnTransformation(self.shape.shape,
                              Matrix_from_raw(Matrix_mul(Matrix_to_matrix(self.matrix),
                                                         Matrix_to_matrix(self.shape.matrix)))),
                          eye, up)
            ELSE and_then(to_shape(self.shape,
                                   mul_position(Matrix_inverse(Matrix_to_matrix(self.matrix)),
                                                eye),
                                   up),
                          TransformedShape_new(
                              to_shape(self.shape,
                                       mul_position(Matrix_inverse(Matrix_to_matrix(self.matrix)),
                                                    eye),
                                       up).shape,
                              Matrix_to_matrix(self.matrix)))

\* ---- constructor.rs: render.  Scene::render is kept as the shapes added.
constructor_render(shapes, eye, up) ==
    collect([k \in 1..Len(shapes) |-> to_shape(shapes[k], Vector_new(eye), Vector_new(up))])

\* ---- lib.rs: render.  An argument is the bytes of a value, or bytes that
\* do not decode (None).
from_reader(bytes) == IF bytes = None THEN Err("decode") ELSE Ok(bytes[1])

\* What the host gets back: Ok with the drawing's bytes, or Err and no bytes.
Response(res) ==
    [tag |-> res.tag, message |-> res.message,
     output |-> IF res.tag = "Ok" THEN Some(res.shape) ELSE None]

lib_render(render_args, shapes) ==
    IF from_reader(render_args).tag # "Ok" THEN Response(from_reader(render_args))
    ELSE IF from_reader(shapes).tag # "Ok" THEN Response(from_reader(shapes))
    ELSE Response(constructor_render(shapes[1], render_args[1].eye, render_args[1].up))

\* ---- the shape trees and requests tried
\* How deep a shape is nested in Difference, Intersection and Transformation.
MaxNest == 2

GoodCube == LnCube(<<0, 0, 0>>, <<1, 1, 1>>, "Vanilla", 0)
GoodTriangle == LnTriangle(<<0, 0, 0>>, <<2, 0, 0>>, <<0, 2, 0>>)
UnitBox == <<<<0, 0, 0>>, <<1, 1, 1>>>>

GoodLeaves ==
    { GoodCube, GoodTriangle,
      LnCube(<<0, 0, 0>>, <<1, 1, 1>>, "Stripes", 3),
      LnSphere(<<0, 0, 0>>, 1, "RandomDots", 7),
      LnCone(1, <<0, 0, 0>>, <<0, 0, 2>>),
      LnMesh(<<GoodTriangle, LnTriangle(<<0, 0, 0>>, <<0, 0, 2>>, <<2, 0, 0>>)>>),
      LnOutline(LnSphere(<<1, 0, 0>>, 1, "Bogus", 0)),
      LnOutline(LnCylinder(1, <<0, 0, 0>>, <<0, 0, 2>>)),
      LnFunction(<<<<0, 1>>, <<1, 2>>>>, UnitBox, "Below", "Grid", 1) }

BadLeaves ==
    { LnCube(<<0, 0, 0>>, <<1, 1, 1>>, "Bogus", 0),
      LnSphere(<<0, 0, 0>>, 1, "RandomFuzz", 7),
      LnFunction(<<>>, UnitBox, "Below", "Grid", 1),
      LnFunction(<<<<0, 1>>>>, UnitBox, "Below", "Grid", 1),
      LnFunction(<<<<0>>, <<1>>>>, UnitBox, "Below", "Grid", 1),
      LnFunction(<<<<0, 1>>, <<1, 2, 3>>>>, UnitBox, "Below", "Grid", 1),
      LnFunction(<<<<0, 1>>, <<1, 2>>>>, UnitBox, "Sideways", "Grid", 1),
      LnFunction(<<<<0, 1>>, <<1, 2>>>>, UnitBox, "Above", "Bogus", 1),
      LnMesh(<<GoodTriangle, GoodCube>>),
      LnOutline(GoodCube),
      LnOutline(LnOutline(LnSphere(<<1, 0, 0>>, 1, "LatLng", 0))) }

LnMatrices ==
    { LnTranslate(<<1, 2, 3>>), LnRotate(<<0, 0, 1>>, 1), LnScale(<<-1, 1, 1>>),
      LnRaw(<<1, 1, 0, 0, 0, 1, 0, 0, 0, 0, 1, 5, 0, 0, 0, 1>>) }

\* A tree one level inside a Difference, an Intersection or a Transformation.
Nest(tree) ==
    {LnDifference(<<GoodCube, tree>>), LnDifference(<<tree, GoodTriangle>>),
     LnIntersection(<<GoodCube, tree>>)}
        \cup {LnTransformation(tree, matrix) : matrix \in LnMatrices}

RECURSIVE LnTrees(_)
LnTrees(depth) ==
    IF depth = 0 THEN GoodLeaves \cup BadLeaves
    ELSE LnTrees(depth - 1) \cup UNION {Nest(tree) : tree \in LnTrees(depth - 1)}

LnRenderArgs ==
    {[eye |-> eye, up |-> <<0, 0, 1>>, format |-> "svg"] : eye \in {<<4, 3, 2>>, <<0, -5, 1>>}}

Requests ==
    {[render_args |-> Some(args), shapes |-> Some(<<tree>>)] :
        args \in LnRenderArgs, tree \in LnTrees(MaxNest)}
      \cup {[render_args |-> Some(args), shapes |-> Some(<<GoodCube, tree, GoodTriangle>>)] :
                args \in LnRenderArgs, tree \in BadLeaves \cup {GoodTriangle}}
      \cup {[render_args |-> None, shapes |-> Some(<<GoodCube>>)]}
      \cup {[render_args |-> Some(args), shapes |-> None] : args \in LnRenderArgs}

PluginInit ==
    /\ request = None
    /\ response = None

\* The plugin at rest, in the specifications of the other groups.
PluginIdle ==
    /\ request = None
    /\ response = None

\* The host calls render with two byte strings.
PluginCall(req) ==
    /\ request = None
    /\ request' = Some(req)
    /\ response' = None
    /\ UNCHANGED notPluginVars

\* lib.rs: render
PluginRender ==
    /\ request # None
    /\ response = None
    /\ response' = Some(lib_render(request[1].render_args, request[1].shapes))
    /\ UNCHANGED request
    /\ UNCHANGED notPluginVars

\* The host takes the result; the plugin keeps nothing of the call.
PluginReturn ==
    /\ response # None
    /\ request' = None
    /\ response' = None
    /\ UNCHANGED notPluginVars

(***************************************************************************)
(* mesh.rs: a VertexMerger on its own                                      *)
(***************************************************************************)
\* The epsilons tried, as fractions of the spacing of the points tried:
\* 3/2 and 2, so that points one or two cells apart can be within epsilon.
MergerEpsilons == {<<3, 2>>, <<2, 1>>}

MergerPoints == {Vec(x, y, 0) : x \in -2..2, y \in -1..0} \cup {Vec(0, 0, -1), Vec(1, -1, 1)}

NoMergerCall == [v |-> Vec(0, 0, 0), idx |-> 0]

MergerInit ==
    /\ merger \in {VertexMerger_new(eps[1], eps[2]) : eps \in MergerEpsilons}
    /\ got = NoMergerCall

\* No merger in play, in the specifications of the other groups.
MergerIdle ==
    /\ merger = VertexMerger_new(1, 1)
    /\ got = NoMergerCall

\* What a call of get_or_insert leaves: the merger and the index returned.
MergerReturn(v, r) ==
    /\ merger' = r.merger
    /\ got' = [v |-> v, idx |-> r.idx]

\* VertexMerger::get_or_insert
MergerGetOrInsert(v) ==
    /\ MergerReturn(v, get_or_insert(merger, v))
    /\ UNCHANGED notMergerVars

(***************************************************************************)
(* path.rs: chop, chop_adaptive and simplify                               *)
(***************************************************************************)
add(a, b) == Vec(a.x + b.x, a.y + b.y, a.z + b.z)

\* Vector::length of a vector whose length is a whole number.
length(v) == CHOOSE n \in 0..length_squared(v) : n * n = length_squared(v)

\* v.mul_scalar(d / l), where l divides the products.
mul_ratio(v, d, l) == Vec((v.x * d) \div l, (v.y * d) \div l, (v.z * d) \div l)

\* A slip: d advances by two steps.
RECURSIVE path_chop_while_sparse(_, _, _, _, _, _)
path_chop_while_sparse(a, v, l, step, d, res) ==
    IF d < l
    THEN path_chop_while_sparse(a, v, l, step, d + 2 * step,
                                Append(res, add(a, mul_ratio(v, d, l))))
    ELSE res

\* The while loop of path_chop: the points at d, d + step, ... short of l.
RECURSIVE path_chop_while(_, _, _, _, _, _)
path_chop_while(a, v, l, step, d, res) ==
    IF d < l
    THEN path_chop_while(a, v, l, step, d + step, Append(res, add(a, mul_ratio(v, d, l))))
    ELSE res

\* A slip: the first vertex of the path is never pushed.
RECURSIVE path_chop_for_late(_, _, _, _)
path_chop_for_late(path, step, i, res) ==
    IF i > Len(path) - 1 THEN res
    ELSE path_chop_for_late(path, step, i + 1,
             Append(path_chop_while(path[i], sub(path[i + 1], path[i]),
                                    length(sub(path[i + 1], path[i])), step, step, res),
                    path[i + 1]))

\* The for loop of path_chop from segment i on (i counts from 1).
RECURSIVE path_chop_for(_, _, _, _)
path_chop_for(path, step, i, res) ==
    IF i > Len(path) - 1 THEN res
    ELSE path_chop_for(path, step, i + 1,
             Append(path_chop_while(path[i], sub(path[i + 1], path[i]),
                                    length(sub(path[i + 1], path[i])), step, step,
                                    IF i = 1 THEN Append(res, path[i]) ELSE res),
                    path[i + 1]))

path_chop(path, step) == path_chop_for(path, step, 1, <<>>)

\* crate::common::EPS in the squared unit of the polylines tried, which are
\* taken small enough for it to stop a bisection.
EPS == 26

\* a.distance_squared(b) < crate::common::EPS
below_EPS(a, b) == distance_squared(a, b) < EPS

\* The test of recursive_subdivide: both ends off the screen on one side, or
\* close on the screen, or close in space.
subdivide_stop(a, b, sa, sb, width, height, step_sq) ==
    \/ (sa.x < 0 /\ sb.x < 0)
    \/ (sa.y < 0 /\ sb.y < 0)
    \/ (sa.x > width /\ sb.x > width)
    \/ (sa.y > height /\ sb.y > height)
    \/ distance_squared(sa, sb) < step_sq
    \/ below_EPS(a, b)

\* a.add(b).mul_scalar(0.5), where the sums are even.
midpoint(a, b) == Vec((a.x + b.x) \div 2, (a.y + b.y) \div 2, (a.z + b.z) \div 2)

\* A slip: the two halves are pushed as they are, not subdivided again.
recursive_subdivide_once(a, b, screen_mat, width, height, step_sq, res) ==
    IF subdivide_stop(a, b, mul_position_w(screen_mat, a), mul_position_w(screen_mat, b),
                      width, height, step_sq)
    THEN Append(res, b)
    ELSE Append(Append(res, midpoint(a, b)), b)

RECURSIVE recursive_subdivide(_, _, _, _, _, _, _)
recursive_subdivide(a, b, screen_mat, width, height, step_sq, res) ==
    IF subdivide_stop(a, b, mul_position_w(screen_mat, a), mul_position_w(screen_mat, b),
                      width, height, step_sq)
    THEN Append(res, b)
    ELSE recursive_subdivide(midpoint(a, b), b, screen_mat, width, height, step_sq,
             recursive_subdivide(a, midpoint(a, b), screen_mat, width, height, step_sq, res))

RECURSIVE path_chop_adaptive_for(_, _, _, _, _, _, _)
path_chop_adaptive_for(path, screen_mat, width, height, step_sq, i, res) ==
    IF i > Len(path) - 1 THEN res
    ELSE path_chop_adaptive_for(path, screen_mat, width, height, step_sq, i + 1,
             recursive_subdivide(path[i], path[i + 1], screen_mat, width, height, step_sq, res))

\* path_chop_adaptive of a path that has a first vertex; path[0] of an empty
\* path panics.
path_chop_adaptive(path, screen_mat, width, height, step) ==
    path_chop_adaptive_for(path, screen_mat, width, height, step * step, 1, <<path[1]>>)

\* Vector::segment_distance, squared: the distance from p to the nearest
\* point of the segment from v to w.
segment_distance_sq(p, v, w) ==
    IF distance_squared(v, w) = 0 THEN FInt(distance_squared(p, v))
    ELSE IF dot(sub(p, v), sub(w, v)) < 0 THEN FInt(distance_squared(p, v))
    ELSE IF dot(sub(p, v), sub(w, v)) > distance_squared(v, w) THEN FInt(distance_squared(p, w))
    ELSE Frac(distance_squared(p, v) * distance_squared(v, w)
                  - dot(sub(p, v), sub(w, v)) * dot(sub(p, v), sub(w, v)),
              distance_squared(v, w))

\* A slip: every interior vertex replaces the farthest so far.
RECURSIVE path_simplify_for_last(_, _, _, _)
path_simplify_for_last(path, i, index, distance_sq) ==
    IF i > Len(path) - 1 THEN [index |-> index, distance_sq |-> distance_sq]
    ELSE path_simplify_for_last(path, i + 1, i,
                                segment_distance_sq(path[i], path[1], path[Len(path)]))

\* A slip: each vertex measured from the segment of its two neighbours.
RECURSIVE path_simplify_for_near(_, _, _, _)
path_simplify_for_near(path, i, index, distance_sq) ==
    IF i > Len(path) - 1 THEN [index |-> index, distance_sq |-> distance_sq]
    ELSE IF FLt(distance_sq, segment_distance_sq(path[i], path[i - 1], path[i + 1]))
         THEN path_simplify_for_near(path, i + 1, i,
                                     segment_distance_sq(path[i], path[i - 1], path[i + 1]))
         ELSE path_simplify_for_near(path, i + 1, index, distance_sq)

\* The for loop of path_simplify from vertex i on (i counts from 1): the
\* index of the farthest interior vertex so far and its squared distance.
RECURSIVE path_simplify_for(_, _, _, _)
path_simplify_for(path, i, index, distance_sq) ==
    IF i > Len(path) - 1 THEN [index |-> index, distance_sq |-> distance_sq]
    ELSE IF FLt(distance_sq, segment_distance_sq(path[i], path[1], path[Len(path)]))
         THEN path_simplify_for(path, i + 1, i,
                                segment_distance_sq(path[i], path[1], path[Len(path)]))
         ELSE path_simplify_for(path, i + 1, index, distance_sq)

\* The two halves of path_simplify put together: r1 without its last vertex,
\* then r2.
simplify_join(r1, r2) == SubSeq(r1, 1, Len(r1) - 1) \o r2

RECURSIVE path_simplify(_, _)
path_simplify_split(path, threshold, far) ==
    IF FLt(FInt(threshold * threshold), far.distance_sq)
    THEN simplify_join(path_simplify(SubSeq(path, 1, far.index), threshold),
                       path_simplify(SubSeq(path, far.index, Len(path)), threshold))
    ELSE <<path[1], path[Len(path)]>>

path_simplify(path, threshold) ==
    IF Len(path) < 3 THEN path
    ELSE path_simplify_split(path, threshold, path_simplify_for(path, 2, 1, FInt(0)))

\* ---- the Paths tried and the calls made on them
\* Longest polyline of a Paths chopped or simplified.
MaxLineLen == 4

\* The vertices: the corners of a triangle and the middle of its base, every
\* two of them a whole distance apart.
LinePoints == {Vec(0, 0, 0), Vec(12, 0, 0), Vec(-12, 0, 0), Vec(0, 16, 0)}

\* The polylines of a Paths of two.
LinePair == {<<>>, <<Vec(0, 0, 0)>>, <<Vec(12, 0, 0), Vec(0, 16, 0)>>,
             <<Vec(-12, 0, 0), Vec(0, 16, 0), Vec(12, 0, 0)>>}

\* Paths::from_vec
Paths_from_vec(ps) == ps

LineInputs ==
    {Paths_from_vec(<<p>>) : p \in SeqsUpTo(LinePoints, MaxLineLen)}
        \cup {Paths_from_vec(<<p, q>>) : p \in LinePair, q \in LinePair}

ChopSteps == {5, 10, 40}
Thresholds == {0, 5, 10, 16}

\* The screens: the world moved left by 4, and the world doubled and moved
\* into the middle of the screen.
LineScreens ==
    {[r1 |-> Vec(1, 0, 0), r2 |-> Vec(0, 1, 0), r3 |-> Vec(0, 0, 1), t |-> Vec(-4, 0, 0)],
     [r1 |-> Vec(2, 0, 0), r2 |-> Vec(0, 2, 0), r3 |-> Vec(0, 0, 2), t |-> Vec(40, 40, 0)]}
LineWidth == 100
LineHeight == 100
AdaptiveSteps == {1, 12, 40}

\* The filters: the sets of vertices rejected.
LineRejected == {{}, {Vec(0, 0, 0)}, {Vec(12, 0, 0)}, {Vec(0, 16, 0), Vec(-12, 0, 0)}, LinePoints}
LineFilters == {[v \in LinePoints |-> IF v \in rej THEN None ELSE Some(Projected(v))] :
                   rej \in LineRejected}

\* The map of a per-path function over the paths, in order.
RECURSIVE Paths_chop_from(_, _, _)
Paths_chop_from(ps, step, k) ==
    IF k > Len(ps) THEN <<>>
    ELSE <<path_chop(ps[k], step)>> \o Paths_chop_from(ps, step, k + 1)

Paths_chop(ps, step) == Paths_chop_from(ps, step, 1)

RECURSIVE Paths_chop_adaptive_from(_, _, _, _, _, _)
Paths_chop_adaptive_from(ps, screen_mat, width, height, step, k) ==
    IF k > Len(ps) THEN <<>>
    ELSE <<path_chop_adaptive(ps[k], screen_mat, width, height, step)>>
             \o Paths_chop_adaptive_from(ps, screen_mat, width, height, step, k + 1)

Paths_chop_adaptive(ps, screen_mat, width, height, step) ==
    Paths_chop_adaptive_from(ps, screen_mat, width, height, step, 1)

RECURSIVE Paths_simplify_from(_, _, _)
Paths_simplify_from(ps, threshold, k) ==
    IF k > Len(ps) THEN <<>>
    ELSE <<path_simplify(ps[k], threshold)>> \o Paths_simplify_from(ps, threshold, k + 1)

Paths_simplify(ps, threshold) == Paths_simplify_from(ps, threshold, 1)

NoScreen == [r1 |-> Vec(0, 0, 0), r2 |-> Vec(0, 0, 0), r3 |-> Vec(0, 0, 0), t |-> Vec(0, 0, 0)]
NoLineFilter == [v \in LinePoints |-> None]
NoLineCall ==
    [call |-> "none", step |-> 0, threshold |-> 0, screen_mat |-> NoScreen,
     f |-> NoLineFilter, panicked |-> FALSE, paths |-> <<>>]

LineInit ==
    /\ lines \in LineInputs
    /\ lret = NoLineCall

\* The group at rest, in the specifications of the other groups.
LineIdle ==
    /\ lines = <<>>
    /\ lret = NoLineCall

\* Paths::chop
LineChop(step) ==
    /\ lret' = [NoLineCall EXCEPT !.call = "chop", !.step = step,
                                  !.paths = Paths_chop(lines, step)]
    /\ UNCHANGED lines
    /\ UNCHANGED notLineVars

\* Paths::chop_adaptive: path[0] of an empty path panics.
LineChopAdaptive(screen_mat, step) ==
    /\ lret' = IF \E k \in 1..Len(lines) : Len(lines[k]) = 0
               THEN [NoLineCall EXCEPT !.call = "chop_adaptive", !.step = step,
                                       !.screen_mat = screen_mat, !.panicked = TRUE]
               ELSE [NoLineCall EXCEPT !.call = "chop_adaptive", !.step = step,
                                       !.screen_mat = screen_mat,
                                       !.paths = Paths_chop_adaptive(lines, screen_mat,
                                                     LineWidth, LineHeight, step)]
    /\ UNCHANGED lines
    /\ UNCHANGED notLineVars

\* Paths::simplify
LineSimplify(threshold) ==
    /\ lret' = [NoLineCall EXCEPT !.call = "simplify", !.threshold = threshold,
                                  !.paths = Paths_simplify(lines, threshold)]
    /\ UNCHANGED lines
    /\ UNCHANGED notLineVars

\* Paths::filter
LineFilter(f) ==
    /\ lret' = [NoLineCall EXCEPT !.call = "filter", !.f = f,
                                  !.paths = Paths_filter(lines, f)]
    /\ UNCHANGED lines
    /\ UNCHANGED notLineVars

(***************************************************************************)
(* sphere.rs: paths_random_circles, one draw at a time                     *)
(***************************************************************************)
\* Most circles asked of one run.
MaxCircleCount == 5
CircleCounts == {2, MaxCircleCount}

\* What Vector::random_unit_vector may return: unit vectors, kept in fifths.
\* Two of them are 0.283 apart, the others at least 0.63.
CircleDirections == {Vec(5, 0, 0), Vec(-5, 0, 0), Vec(3, 4, 0), Vec(4, 3, 0)}

\* What rng.random::<f64>() may return, in thousandths: m is 0.05 or 0.299.
CircleDraws == {0, 996}

\* What rng.random_range(1..=4) may return.
RingCounts == {1, 4}

NoCandidate == [v |-> Vec(0, 0, 0), m |-> 0, ok |-> FALSE]

CircleInit ==
    /\ cleft \in CircleCounts
    /\ cpc = "spot"
    /\ cseen = <<>>
    /\ cradii = <<>>
    /\ clast = NoCandidate
    /\ cpaths = 0

\* The group at rest, in the specifications of the other groups.
CircleIdle ==
    /\ cleft = 0
    /\ cpc = "done"
    /\ cseen = <<>>
    /\ cradii = <<>>
    /\ clast = NoCandidate
    /\ cpaths = 0

\* One turn of the loop that finds a spot, ok false: the candidate is within
\* the threshold of a circle seen, and the loop goes round again.
CirclesReject(v, x) ==
    /\ cpc = "spot"
    /\ circles_overlap(cseen, cradii, v, circles_m(x))
    /\ clast' = [v |-> v, m |-> circles_m(x), ok |-> FALSE]
    /\ UNCHANGED <<cpc, cleft, cseen, cradii, cpaths>>
    /\ UNCHANGED notCircleVars

\* One turn of that loop, ok true: the candidate is pushed and the loop left.
CirclesAccept(v, x) ==
    /\ cpc = "spot"
    /\ ~circles_overlap(cseen, cradii, v, circles_m(x))
    /\ cseen' = Append(cseen, v)
    /\ cradii' = Append(cradii, circles_m(x))
    /\ clast' = [v |-> v, m |-> circles_m(x), ok |-> TRUE]
    /\ cpc' = "rings"
    /\ UNCHANGED <<cleft, cpaths>>
    /\ UNCHANGED notCircleVars

\* The n concentric circles of the spot found: n polylines are pushed, and
\* the outer for loop goes on to the next circle or ends.
CirclesRings(n) ==
    /\ cpc = "rings"
    /\ cpaths' = cpaths + n
    /\ cleft' = cleft - 1
    /\ cpc' = IF cleft = 1 THEN "done" ELSE "spot"
    /\ UNCHANGED <<cseen, cradii, clast>>
    /\ UNCHANGED notCircleVars

(***************************************************************************)
(* The specifications                                                      *)
(***************************************************************************)
NextPath ==
    \/ \E path \in SeqsUpTo(PathVertices, MaxLen) : PathsPush(path)
    \/ PathsFilter

InitPath == PathInit /\ ShapeIdle /\ MeshIdle /\ CompileIdle /\ FunctionIdle
    /\ SphereIdle /\ PluginIdle /\ MergerIdle /\ LineIdle /\ CircleIdle

SpecPath == InitPath /\ [][NextPath]_vars

NextShape ==
    \/ \E eye \in Eyes, order \in HashOrders : ShapePaths(eye, order)
    \/ \E v \in Points, f \in Inflations : ShapeContains(v, f)
    \/ \E r \in CubeRays : CubeIntersect(r)

InitShape == ShapeInit /\ PathIdle /\ MeshIdle /\ CompileIdle /\ FunctionIdle
    /\ SphereIdle /\ PluginIdle /\ MergerIdle /\ LineIdle /\ CircleIdle

SpecShape == InitShape /\ [][NextShape]_vars

NextMesh ==
    \/ \E matrix \in Matrices : MeshTransform(matrix)
    \/ MeshCompile
    \/ \E r \in Rays : MeshIntersect(r)
    \/ \E order \in HashOrders : MeshPaths(order)

InitMesh == MeshInit /\ PathIdle /\ ShapeIdle /\ CompileIdle /\ FunctionIdle
    /\ SphereIdle /\ PluginIdle /\ MergerIdle /\ LineIdle /\ CircleIdle

SpecMesh == InitMesh /\ [][NextMesh]_vars

\* ---- a mesh moved, fitted, compiled and asked
MovedInit ==
    /\ mesh \in {Mesh_new(triangles) : triangles \in MovedInputs}
    /\ mret = NoMCall("new")

NextMoved ==
    \/ \E matrix \in Matrices : MeshTransform(matrix)
    \/ \E position \in MovePositions, anchor \in Anchors : MeshMoveTo(position, anchor)
    \/ \E bx \in FitBoxes, anchor \in Anchors : MeshFitInside(bx, anchor)
    \/ MeshCompile
    \/ \E r \in MovedRays : MeshIntersect(r)

InitMoved == MovedInit /\ PathIdle /\ ShapeIdle /\ CompileIdle /\ FunctionIdle
    /\ SphereIdle /\ PluginIdle /\ MergerIdle /\ LineIdle /\ CircleIdle

SpecMoved == InitMoved /\ [][NextMoved]_vars

CallerRays == {Ray(Vec(-1, -1, -1), Vec(1, 1, 2)), Ray(Vec(4, 1, 1), Vec(1, 1, 1))}

NextCompile ==
    \E c \in Callers :
        \/ CompileCall(c)
        \/ CompileEnter(c)
        \/ CompileCheck(c)
        \/ CompileBuild(c)
        \/ CompileStore(c)
        \/ CompileReturn(c)
        \/ \E r \in CallerRays : IntersectCall(c, r)
        \/ IntersectEnter(c)
        \/ IntersectRead(c)

InitCompile == CompileInit /\ PathIdle /\ ShapeIdle /\ MeshIdle /\ FunctionIdle
    /\ SphereIdle /\ PluginIdle /\ MergerIdle /\ LineIdle /\ CircleIdle

SpecCompile == InitCompile /\ [][NextCompile]_vars

NextFunction ==
    \/ \E args \in FnArgs : FunctionPaths(args)
    \/ \E ray \in FnRays : FunctionIntersect(ray)

InitFunction == FunctionInit /\ PathIdle /\ ShapeIdle /\ MeshIdle /\ CompileIdle
    /\ SphereIdle /\ PluginIdle /\ MergerIdle /\ LineIdle /\ CircleIdle

SpecFunction == InitFunction /\ [][NextFunction]_vars

NextSphere ==
    \/ \E args \in SphereArgs, keep \in BOOLEAN : SpherePaths(args, keep)
    \/ \E texture \in SeededTextures : SphereWithTexture(texture)

InitSphere ==
    SphereInit /\ PathIdle /\ ShapeIdle /\ MeshIdle /\ CompileIdle /\ FunctionIdle
        /\ PluginIdle /\ MergerIdle /\ LineIdle /\ CircleIdle

SpecSphere == InitSphere /\ [][NextSphere]_vars

NextPlugin ==
    \/ \E req \in Requests : PluginCall(req)
    \/ PluginRender
    \/ PluginReturn

InitPlugin ==
    PluginInit /\ PathIdle /\ ShapeIdle /\ MeshIdle /\ CompileIdle /\ FunctionIdle
        /\ SphereIdle /\ MergerIdle /\ LineIdle /\ CircleIdle

SpecPlugin == InitPlugin /\ [][NextPlugin]_vars

NextMerger == \E v \in MergerPoints : MergerGetOrInsert(v)

InitMerger ==
    MergerInit /\ PathIdle /\ ShapeIdle /\ MeshIdle /\ CompileIdle /\ FunctionIdle
        /\ SphereIdle /\ PluginIdle /\ LineIdle /\ CircleIdle

SpecMerger == InitMerger /\ [][NextMerger]_vars

NextLine ==
    \/ \E step \in ChopSteps : LineChop(step)
    \/ \E screen_mat \in LineScreens, step \in AdaptiveSteps : LineChopAdaptive(screen_mat, step)
    \/ \E threshold \in Thresholds : LineSimplify(threshold)
    \/ \E f \in LineFilters : LineFilter(f)

InitLine ==
    LineInit /\ PathIdle /\ ShapeIdle /\ MeshIdle /\ CompileIdle /\ FunctionIdle
        /\ SphereIdle /\ PluginIdle /\ MergerIdle /\ CircleIdle

SpecLine == InitLine /\ [][NextLine]_vars

CirclesAcceptSome == \E v \in CircleDirections, x \in CircleDraws : CirclesAccept(v, x)

NextCircles ==
    \/ \E v \in CircleDirections, x \in CircleDraws : CirclesReject(v, x)
    \/ CirclesAcceptSome
    \/ \E n \in RingCounts : CirclesRings(n)

InitCircles ==
    CircleInit /\ PathIdle /\ ShapeIdle /\ MeshIdle /\ CompileIdle /\ FunctionIdle
        /\ SphereIdle /\ PluginIdle /\ MergerIdle /\ LineIdle

SpecCircles == InitCircles /\ [][NextCircles]_vars

\* The run is scheduled as long as it can move, and a generator that draws
\* every candidate again and again draws one that is accepted whenever one
\* can be.
SpecCirclesFair ==
    SpecCircles /\ WF_vars(NextCircles) /\ SF_vars(CirclesAcceptSome)

(***************************************************************************)
(* Claims about path.rs                                                    *)
(***************************************************************************)
\* Vertex k of polyline p is accepted by the filter.
Accepted(p, k) == filt[paths[p][k]] # None

\* The maximal runs of at least 2 consecutive accepted vertices: <<p, i, j>>
\* is the run of vertices i..j of polyline p.
Runs ==
    {r \in UNION {{<<p, i, j>> : i \in 1..Len(paths[p]), j \in 1..Len(paths[p])} :
                    p \in 1..Len(paths)} :
        /\ r[2] < r[3]
        /\ \A k \in r[2]..r[3] : Accepted(r[1], k)
        /\ (r[2] = 1 \/ ~Accepted(r[1], r[2] - 1))
        /\ (r[3] = Len(paths[r[1]]) \/ ~Accepted(r[1], r[3] + 1))}

\* The place of a run in input order.
RunRank(r) ==
    1 + Cardinality({s \in Runs : s[1] < r[1] \/ (s[1] = r[1] /\ s[2] < r[2])})

\* C1: Paths::filter outputs exactly the maximal runs of at least 2
\* consecutive accepted vertices, each vertex replaced by the filter's output,
\* in input order; rejected vertices and shorter runs appear nowhere.
C1_FilterRuns ==
    op = "filter" =>
        /\ Len(result) = Cardinality(Runs)
        /\ \A r \in Runs :
              result[RunRank(r)] =
                  [m \in 1..(r[3] - r[2] + 1) |-> filt[paths[r[1]][r[2] + m - 1]][1]]

\* Two polylines filtered: the first has a kept run ended by a rejected
\* vertex, the second only runs of one vertex, which are dropped.
C1_Witness ==
    /\ op = "filter"
    /\ Len(paths) = 2
    /\ Len(paths[1]) = 3 /\ Accepted(1, 1) /\ Accepted(1, 2) /\ ~Accepted(1, 3)
    /\ Len(paths[2]) = 3 /\ Accepted(2, 1) /\ ~Accepted(2, 2) /\ Accepted(2, 3)
    /\ Len(result) = 1 /\ Len(result[1]) = 2

(***************************************************************************)
(* Claims about mesh.rs                                                    *)
(***************************************************************************)
\* The undirected edges of the mesh, as pairs of vertex indices.
MeshEdges ==
    UNION {{ {mesh.index_triangles[k].v1, mesh.index_triangles[k].v2},
             {mesh.index_triangles[k].v2, mesh.index_triangles[k].v3},
             {mesh.index_triangles[k].v1, mesh.index_triangles[k].v3} } :
           k \in DOMAIN mesh.index_triangles}

\* The triangles an edge belongs to.
Incident(e) ==
    {k \in DOMAIN mesh.index_triangles :
        e \subseteq {mesh.index_triangles[k].v1, mesh.index_triangles[k].v2,
                     mesh.index_triangles[k].v3}}

FaceNormal(k) ==
    cross(sub(mesh.vertices[mesh.index_triangles[k].v2],
              mesh.vertices[mesh.index_triangles[k].v1]),
          sub(mesh.vertices[mesh.index_triangles[k].v3],
              mesh.vertices[mesh.index_triangles[k].v1]))

\* Two faces have the same canonical normal (n and -n identified) exactly when
\* their normals are parallel.
SameCanonical(j, k) == cross(FaceNormal(j), FaceNormal(k)) = Vec(0, 0, 0)

BoundaryOrCrease(e) ==
    \/ Cardinality(Incident(e)) = 1
    \/ \E j, k \in Incident(e) : ~SameCanonical(j, k)

\* Some canonical normal at the edge belongs to exactly one incident triangle.
LoneNormal(e) ==
    \E k \in Incident(e) : \A j \in Incident(e) \ {k} : ~SameCanonical(j, k)

Positions(e) == {mesh.vertices[i] : i \in e}
EmittedEdges == {{mret.paths[n][1], mret.paths[n][2]} : n \in DOMAIN mret.paths}

\* C2, as stated: the edges emitted by Mesh::paths are exactly the boundary
\* edges and the edges between faces whose canonical normals differ.
C2_AsStated ==
    mret.call = "paths" =>
        EmittedEdges = {Positions(e) : e \in {d \in MeshEdges : BoundaryOrCrease(d)}}

\* C2, amended: the edges emitted by Mesh::paths are exactly the edges at
\* which some canonical normal belongs to exactly one incident triangle.  At
\* an edge of at most three triangles these are the boundary edges and the
\* edges between faces of differing canonical normals, an edge whose triangles
\* all share one canonical normal is never emitted, and a mesh all of whose
\* edges lie between two faces of differing normals has every edge emitted.
C2_EdgesEmitted ==
    mret.call = "paths" =>
        /\ EmittedEdges = {Positions(e) : e \in {d \in MeshEdges : LoneNormal(d)}}
        /\ \A e \in MeshEdges :
              Cardinality(Incident(e)) <= 3 =>
                  (Positions(e) \in EmittedEdges <=> BoundaryOrCrease(e))
        /\ \A e \in MeshEdges :
              (Cardinality(Incident(e)) > 1
                    /\ \A j, k \in Incident(e) : SameCanonical(j, k))
                  => Positions(e) \notin EmittedEdges
        /\ (\A e \in MeshEdges :
                /\ Cardinality(Incident(e)) = 2
                /\ \E j, k \in Incident(e) : ~SameCanonical(j, k))
              => EmittedEdges = {Positions(e) : e \in MeshEdges}

\* A closed box: its twelve creases are emitted, its six face diagonals, each
\* between two coplanar faces of opposite winding or not, are not.
C2_Witness ==
    /\ mret.call = "paths"
    /\ Len(mesh.index_triangles) = 12
    /\ \E e \in MeshEdges :
          Cardinality(Incident(e)) = 2 /\ ~LoneNormal(e) /\ Positions(e) \notin EmittedEdges
    /\ \E e \in MeshEdges :
          Cardinality(Incident(e)) = 2 /\ LoneNormal(e) /\ Positions(e) \in EmittedEdges

\* The hits of the mesh's current triangles, each tried on its own.
TriangleHits(r) ==
    {Triangle_intersect(Mesh_triangles(mesh)[k], r) : k \in DOMAIN mesh.index_triangles}

\* C3: on a compiled mesh, Mesh::intersect returns the closest of the hits of
\* the mesh's current triangles, and no hit exactly when no triangle is hit.
C3_IntersectIsMin ==
    (mret.call = "intersect" /\ mesh.tree # None) =>
        /\ mret.hit \in TriangleHits(mret.ray) \cup {NoHit}
        /\ \A h \in TriangleHits(mret.ray) : FLe(mret.hit, h)
        /\ mret.hit = NoHit <=> \A h \in TriangleHits(mret.ray) : h = NoHit

\* A ray that hits two triangles of a mesh whose BVH has an inner root, the
\* nearer hit being returned.
C3_Witness ==
    /\ mret.call = "intersect"
    /\ mesh.tree # None
    /\ ~mesh.tree[1].leaf
    /\ Hit_ok(mret.hit)
    /\ \E h \in TriangleHits(mret.ray) : Hit_ok(h) /\ FLt(mret.hit, h)

\* C4: every compile leaves bounding box, vertices and triangles as they were
\* and leaves a BVH behind; a compile of a mesh that has its BVH, and so every
\* compile that follows a compile, builds nothing and changes nothing.
C4_CompileIdempotent ==
    [][mret'.call = "compile" =>
          /\ mesh'.bx = mesh.bx
          /\ mesh'.vertices = mesh.vertices
          /\ mesh'.index_triangles = mesh.index_triangles
          /\ mesh'.tree # None
          /\ mret'.built <=> mesh.tree = None
          /\ mesh.tree # None => mesh' = mesh
          /\ mret.call = "compile" => (mesh' = mesh /\ ~mret'.built)]_vars

\* A second compile in a row has returned.
C4_Witness ==
    /\ mret.call = "compile"
    /\ ~mret.built
    /\ mesh.tree # None

\* C5: with two callers invoking compile on one mesh, Tree::new runs at most
\* once; a compile that returns leaves the finished BVH of the mesh's
\* triangles in place, whichever caller built it; and an intersect invoked
\* after a compile has returned finds the BVH there.
C5_CompileOnce ==
    /\ builds <= 1
    /\ \A c \in Callers :
          cs[c].pc = "return" => cmesh.tree = Some(Tree_new(Mesh_triangles(cmesh)))
    /\ returned => cmesh.tree = Some(Tree_new(Mesh_triangles(cmesh)))
    /\ \A c \in Callers : (cs[c].after /\ cs[c].pc = "idle") => cs[c].saw = "tree"

\* A caller that invoked compile while the other was inside it returns from
\* its own compile without building, and an intersect invoked afterwards has
\* found the BVH.
C5_Witness ==
    /\ builds = 1
    /\ \E c \in Callers : cs[c].pc = "return" /\ cs[c].raced /\ ~cs[c].built
    /\ \E c \in Callers : cs[c].pc = "idle" /\ cs[c].after /\ cs[c].saw = "tree"

\* C28, as stated: Mesh::paths emits no two polylines joining the same pair of
\* vertices, whatever the triangles and normals at the edge.
C28_AsStated ==
    mret.call = "paths" =>
        \A j, k \in 1..Len(mret.paths) :
            {mret.paths[j][1], mret.paths[j][2]} = {mret.paths[k][1], mret.paths[k][2]}
                => j = k

(***************************************************************************)
(* Claims about the primitives                                             *)
(***************************************************************************)
\* C6, as stated: paths() of every primitive, whatever its texture parameter,
\* returns a Paths value and never panics.
C6_AsStated == ret.call = "paths" => ~ret.panic

IsStripedCylinder ==
    shape.kind = "Cylinder" /\ shape.texture.tag = "Striped" /\ shape.texture.n >= 1

\* C7, as stated: for n >= 1 a Cylinder Striped(n) emits exactly n two-point
\* segments from z0 to z1, the k-th at the azimuth k * 360 / n degrees,
\* k = 0..n-1.
C7_AsStated ==
    (ret.call = "paths" /\ IsStripedCylinder) =>
        /\ ~ret.panic
        /\ Len(ret.paths) = shape.texture.n
        /\ \A k \in 1..Len(ret.paths) :
              /\ Len(ret.paths[k]) = 2
              /\ ret.paths[k][1].z = shape.z0 /\ ret.paths[k][2].z = shape.z1
              /\ \A j \in 1..2 :
                    FInt(ret.paths[k][j].azimuth) = Frac((k - 1) * 360, shape.texture.n)

\* The corners of the box of a cube and the twelve pairs of adjacent corners.
Corners(c) ==
    {Vec(x, y, z) : x \in {FInt(c.min.x), FInt(c.max.x)},
                    y \in {FInt(c.min.y), FInt(c.max.y)},
                    z \in {FInt(c.min.z), FInt(c.max.z)}}
Adjacent(a, b) ==
    \/ a.x # b.x /\ a.y = b.y /\ a.z = b.z
    \/ a.x = b.x /\ a.y # b.y /\ a.z = b.z
    \/ a.x = b.x /\ a.y = b.y /\ a.z # b.z
BoxEdges(c) == {e \in SUBSET Corners(c) : \E a, b \in e : e = {a, b} /\ Adjacent(a, b)}

\* C8: a Vanilla cube emits twelve 2-point polylines, one for each of the
\* twelve edges of its box, and emits what the same cube emits as Striped(1).
C8_VanillaEdges ==
    (ret.call = "paths" /\ shape.kind = "Cube" /\ shape.texture = Vanilla) =>
        /\ ~ret.panic
        /\ Len(ret.paths) = 12
        /\ \A k \in 1..Len(ret.paths) : Len(ret.paths[k]) = 2
        /\ Cardinality(BoxEdges(shape)) = 12
        /\ {{ret.paths[k][1], ret.paths[k][2]} : k \in 1..Len(ret.paths)} = BoxEdges(shape)
        /\ ret.paths = Cube_paths_striped(shape, 1).paths

C8_Witness ==
    /\ ret.call = "paths"
    /\ shape.kind = "Cube" /\ shape.texture = Vanilla
    /\ shape.min = Vec(-1, -2, -3) /\ shape.max = Vec(2, 3, 4)
    /\ Len(ret.paths) = 12

HasNoInterior ==
    \/ shape.kind \in {"Triangle", "Mesh", "OutlineSphere"}
    \/ shape.kind = "Cylinder" /\ shape.texture = Outline

\* C9, as stated: contains returns false, for every point and every eps, on a
\* Triangle, a Mesh, an OutlineSphere and a Cylinder with the Outline texture.
C9_AsStated == (ret.call = "contains" /\ HasNoInterior) => ~ret.inside

\* C10, as stated: the sphere outline is empty whenever the eye is no farther
\* from the centre than the radius, and is one silhouette circle only when it
\* is strictly farther.
C10_AsStated ==
    (ret.call = "paths" /\ shape.kind = "OutlineSphere") =>
        /\ ~ret.panic
        /\ ret.paths = <<>> <=>
              distance_squared(shape.sphere.center, ret.eye)
                  <= shape.sphere.radius * shape.sphere.radius

(***************************************************************************)
(* Claims about function.rs                                                *)
(***************************************************************************)
\* The polylines of the last paths call that run along constant x, and along
\* constant y.
XLines == {k \in DOMAIN fret.paths : \A j \in DOMAIN fret.paths[k] :
                                         fret.paths[k][j].x = fret.paths[k][1].x}
YLines == {k \in DOMAIN fret.paths : \A j \in DOMAIN fret.paths[k] :
                                         fret.paths[k][j].y = fret.paths[k][1].y}

\* C11, as stated: the Grid texture of every Function emits 9 lines of
\* constant x, at x = min.x + k * (max.x - min.x) / 8 for k = 0..8, and 9 lines
\* of constant y likewise, whatever the size of the box.
C11_AsStated ==
    fret.call = "paths" =>
        /\ Cardinality(XLines) = 9
        /\ {8 * (fret.paths[k][1].x - fn.bx.min.x) : k \in XLines}
               = {j * (fn.bx.max.x - fn.bx.min.x) : j \in 0..8}
        /\ Cardinality(YLines) = 9
        /\ {8 * (fret.paths[k][1].y - fn.bx.min.y) : k \in YLines}
               = {j * (fn.bx.max.y - fn.bx.min.y) : j \in 0..8}

\* The slab parameters of the last ray against the Function's box, the
\* parameter the march starts from (0 when the ray misses the box) and the
\* side of the surface there.
FnSlab == Box_intersect(fn.bx, fret.ray)
FnMeets ==
    \/ FLt(FnSlab.t0, Thousandth) /\ FLt(Thousandth, FnSlab.t1)
    \/ ~FLt(FnSlab.t0, Thousandth) /\ FLt(FnSlab.t0, FnSlab.t1)
FnStart ==
    IF ~FnMeets THEN 0
    ELSE IF FLt(FnSlab.t0, Thousandth) THEN fn.step ELSE FnSlab.t0.n \div FnSlab.t0.d
FnSide(t) == Function_contains(fn, Ray_position(fret.ray, t))

\* The marched parameters: start + k * step while the parameter before is
\* short of the exit; and those of them that are inside the box on the other
\* side of the surface.
FnMarched ==
    {FnStart + k * fn.step : k \in {j \in 1..(FnSlab.t1.n \div FnSlab.t1.d + 1) :
                                       FLt(FInt(FnStart + (j - 1) * fn.step), FnSlab.t1)}}
FnFlips ==
    {t \in FnMarched : /\ Box_contains(fn.bx, Ray_position(fret.ray, t))
                       /\ FnSide(t) # FnSide(FnStart)}

\* C12: Function::intersect returns the first marched parameter whose point
\* is inside the box and on the other side of the surface than the start of
\* the march; no hit when the ray misses the box or there is no such sample;
\* the point of every hit is inside the box.
C12_FirstFlip ==
    fret.call = "intersect" =>
        IF ~FnMeets \/ FnFlips = {} THEN fret.hit = NoHit
        ELSE /\ fret.hit = FInt(CHOOSE t \in FnFlips : \A u \in FnFlips : t <= u)
             /\ Box_contains(fn.bx, Ray_position(fret.ray, fret.hit.n))

\* A ray from outside the box whose hit is found after at least one marched
\* sample that was no hit.
C12_Witness ==
    /\ fret.call = "intersect"
    /\ fret.hit # NoHit
    /\ ~FLt(FnSlab.t0, Thousandth)
    /\ fret.hit.n > FnStart + fn.step

(***************************************************************************)
(* Claims about Cube::intersect                                            *)
(***************************************************************************)
\* The slab parameters of the last ray against the cube, and whether the
\* point of the ray at the fraction t is in the cube.
CubeSlab == Box_intersect(Box(shape.min, shape.max), ret.ray)
CubeHolds(t) ==
    LET at(o, d) == FAdd(FInt(o), FMul(FInt(d), t))
        px == at(ret.ray.origin.x, ret.ray.direction.x)
        py == at(ret.ray.origin.y, ret.ray.direction.y)
        pz == at(ret.ray.origin.z, ret.ray.direction.z)
    IN /\ FLe(FInt(shape.min.x), px) /\ FLe(px, FInt(shape.max.x))
       /\ FLe(FInt(shape.min.y), py) /\ FLe(py, FInt(shape.max.y))
       /\ FLe(FInt(shape.min.z), pz) /\ FLe(pz, FInt(shape.max.z))

\* C13, as stated: for a ray whose origin the cube contains, intersect returns
\* a hit at a finite t > 0, the exit parameter of the slabs, and the point just
\* before the hit is in the cube; for a ray from outside that enters the cube
\* it returns the entry parameter.
C13_AsStated ==
    ret.call = "intersect" =>
        /\ Cube_contains(shape, ret.ray.origin, 0) =>
              /\ ret.hit # NoHit
              /\ FLt(FInt(0), ret.hit)
              /\ ret.hit = CubeSlab.t1
              /\ CubeHolds(FSub(ret.hit, Frac(1, 1000)))
        /\ (/\ ~Cube_contains(shape, ret.ray.origin, 0)
            /\ FLt(CubeSlab.t0, CubeSlab.t1)
            /\ FLt(FInt(0), CubeSlab.t1)) =>
              ret.hit = CubeSlab.t0

(***************************************************************************)
(* Claims about the seeded sphere textures                                 *)
(***************************************************************************)
\* A call of paths and a call kept from before it had the same sphere
\* (center, radius, texture and seed) and the same render arguments.
SameRun ==
    /\ skept.call = "paths"
    /\ sret.call = "paths"
    /\ skept.sphere = sret.sphere
    /\ skept.args = sret.args

C15_AsStated ==
    mret.call = "paths" => \A order \in HashOrders : mret.paths = Mesh_paths(mesh, order)

(***************************************************************************)
(* Claims about the plugin's shape tree                                    *)
(***************************************************************************)
\* The sample grid of a Function is smaller than 2x2 or has rows of
\* unequal length.
BadGrid(samples) ==
    \/ Len(samples) < 2
    \/ \E k \in 1..Len(samples) : Len(samples[k]) < 2
    \/ \E j, k \in 1..Len(samples) : Len(samples[j]) # Len(samples[k])

\* The construction errors of a shape tree: a bad sample grid, an unknown
\* texture or direction tag, a Mesh with a child that is not a Triangle, an
\* Outline of anything but Cone, Cylinder or Sphere, or any of these inside
\* a Difference, an Intersection or a Transformation.
RECURSIVE ConstructionError(_)
ConstructionError(tree) ==
    CASE tree.kind = "Function" ->
            \/ BadGrid(tree.samples)
            \/ tree.direction \notin {"Below", "Above"}
            \/ tree.texture \notin {"Grid", "Swirl", "Spiral"}
      [] tree.kind = "Cube" -> tree.texture \notin {"Vanilla", "Stripes"}
      [] tree.kind = "Sphere" ->
            tree.texture \notin {"LatLng", "RandomEquators", "RandomDots", "RandomCircles"}
      [] tree.kind = "Mesh" -> \E k \in 1..Len(tree.shapes) : tree.shapes[k].kind # "Triangle"
      [] tree.kind = "Outline" -> tree.shape.kind \notin {"Cone", "Cylinder", "Sphere"}
      [] tree.kind \in {"Difference", "Intersection"} ->
            \E k \in 1..Len(tree.shapes) : ConstructionError(tree.shapes[k])
      [] tree.kind = "Transformation" -> ConstructionError(tree.shape)
      [] OTHER -> FALSE

\* The call that returned decoded, and one of its shapes has a construction
\* error.
ErrorRequested ==
    /\ response # None
    /\ request[1].render_args # None
    /\ request[1].shapes # None
    /\ \E k \in 1..Len(request[1].shapes[1]) : ConstructionError(request[1].shapes[1][k])

RECURSIVE ChainCore(_)
ChainCore(tree) == IF tree.kind = "Transformation" THEN ChainCore(tree.shape) ELSE tree

RECURSIVE ChainLen(_)
ChainLen(tree) == IF tree.kind = "Transformation" THEN 1 + ChainLen(tree.shape) ELSE 0

\* Where the chain takes a point of the innermost shape: through M_1 first
\* and M_k last.
RECURSIVE ChainApply(_, _)
ChainApply(tree, v) ==
    IF tree.kind = "Transformation"
    THEN mul_position(Matrix_to_matrix(tree.matrix), ChainApply(tree.shape, v))
    ELSE v

\* The product M_k * ... * M_1: the affine matrix that maps as the chain does.
ChainProduct(tree) ==
    Matrix(Vec(ChainApply(tree, Vec(1, 0, 0)).x - ChainApply(tree, Vec(0, 0, 0)).x,
               ChainApply(tree, Vec(0, 1, 0)).x - ChainApply(tree, Vec(0, 0, 0)).x,
               ChainApply(tree, Vec(0, 0, 1)).x - ChainApply(tree, Vec(0, 0, 0)).x),
           Vec(ChainApply(tree, Vec(1, 0, 0)).y - ChainApply(tree, Vec(0, 0, 0)).y,
               ChainApply(tree, Vec(0, 1, 0)).y - ChainApply(tree, Vec(0, 0, 0)).y,
               ChainApply(tree, Vec(0, 0, 1)).y - ChainApply(tree, Vec(0, 0, 0)).y),
           Vec(ChainApply(tree, Vec(1, 0, 0)).z - ChainApply(tree, Vec(0, 0, 0)).z,
               ChainApply(tree, Vec(0, 1, 0)).z - ChainApply(tree, Vec(0, 0, 0)).z,
               ChainApply(tree, Vec(0, 0, 1)).z - ChainApply(tree, Vec(0, 0, 0)).z),
           ChainApply(tree, Vec(0, 0, 0)))

\* The eye in the space of the innermost shape: back through the inverse of
\* M_k first and of M_1 last, which is the inverse of the product.
RECURSIVE ChainLocal(_, _)
ChainLocal(tree, v) ==
    IF tree.kind = "Transformation"
    THEN ChainLocal(tree.shape, mul_position(Matrix_inverse(Matrix_to_matrix(tree.matrix)), v))
    ELSE v

\* What a single Transformation of the chain's core by the product builds.
Flattened(tree, eye, up) ==
    and_then(to_shape(ChainCore(tree), ChainLocal(tree, eye), up),
             TransformedShape_new(to_shape(ChainCore(tree), ChainLocal(tree, eye), up).shape,
                                  ChainProduct(tree)))

\* The call that returned asked for one shape, a chain of at least two
\* directly nested Transformation nodes.
ChainRequested ==
    /\ response # None
    /\ request[1].render_args # None
    /\ request[1].shapes # None
    /\ Len(request[1].shapes[1]) = 1
    /\ ChainLen(request[1].shapes[1][1]) >= 2

\* C17: for a chain of k >= 2 directly nested Transformation nodes with
\* matrices M_k (outermost) .. M_1 (innermost) around a shape s that is not a
\* Transformation, to_shape builds what a single Transformation of s by the
\* product M_k * ... * M_1 builds: s built with the eye taken through the
\* inverse of the product, transformed by the product.
C17_Flattened ==
    ChainRequested =>
        LET tree == request[1].shapes[1][1]
            eye == Vector_new(request[1].render_args[1].eye)
            up == Vector_new(request[1].render_args[1].up)
        IN /\ to_shape(tree, eye, up)
                = to_shape(LnTransformation(ChainCore(tree),
                                            Matrix_from_raw(ChainProduct(tree))), eye, up)
           /\ response[1].tag = Flattened(tree, eye, up).tag
           /\ response[1].message = Flattened(tree, eye, up).message
           /\ response[1].tag = "Ok" =>
                 response[1].output = Some(<<Flattened(tree, eye, up).shape>>)

\* A translation around a quarter turn around the outline of a sphere, which
\* is built from the eye: the two matrices do not commute.
C17_Witness ==
    /\ ChainRequested
    /\ response[1].tag = "Ok"
    /\ request[1].shapes[1][1].matrix.kind = "Translate"
    /\ request[1].shapes[1][1].shape.matrix.kind = "Rotate"
    /\ request[1].shapes[1][1].shape.shape.kind = "Outline"
    /\ response[1].output[1][1].kind = "TransformedShape"
    /\ response[1].output[1][1].shape.kind = "OutlineSphere"

(***************************************************************************)
(* Claims about VertexMerger                                               *)
(***************************************************************************)
\* Two points are at a distance less than the merger's epsilon.
Near(a, b) ==
    distance_squared(a, b) * merger.eps_d * merger.eps_d < merger.eps_n * merger.eps_n

\* The cell of a point, as floor(coordinate / epsilon).
CellOf(v) == <<Cell(v.x, merger), Cell(v.y, merger), Cell(v.z, merger)>>

\* C18: after any sequence of get_or_insert calls no two distinct entries
\* of the vertex list are at a distance less than epsilon, every entry is
\* listed in the grid under its own cell, and every entry within epsilon
\* of the point of the last call lies in one of the 27 cells searched for it.
C18_Deduplicated ==
    /\ \A j, k \in DOMAIN merger.vertices :
          j # k => ~Near(merger.vertices[j], merger.vertices[k])
    /\ \A k \in DOMAIN merger.vertices :
          /\ CellOf(merger.vertices[k]) \in DOMAIN merger.grid
          /\ \E n \in DOMAIN merger.grid[CellOf(merger.vertices[k])] :
                merger.grid[CellOf(merger.vertices[k])][n] = k
    /\ got.idx # 0 =>
          \A k \in DOMAIN merger.vertices :
              Near(merger.vertices[k], got.v) =>
                  \E c \in 1..27 :
                      Neighbourhood(CellOf(got.v)[1], CellOf(got.v)[2], CellOf(got.v)[3])[c]
                          = CellOf(merger.vertices[k])

\* A point was merged into a vertex of another cell: the vertex list holds
\* several entries and the call returned one that is not the point itself.
C18_Witness ==
    /\ Len(merger.vertices) >= 3
    /\ got.idx # 0
    /\ merger.vertices[got.idx] # got.v
    /\ CellOf(merger.vertices[got.idx]) # CellOf(got.v)
    /\ Near(merger.vertices[got.idx], got.v)

(***************************************************************************)
(* Claims about chop, chop_adaptive and simplify                           *)
(***************************************************************************)
\* The vertices of a polyline at the indices K, in order.
Pick(path, K) ==
    [m \in 1..Cardinality(K) |-> path[CHOOSE k \in K : Cardinality({j \in K : j <= k}) = m]]

\* The kept indices on either side of a dropped index j.
KeptBefore(K, j) == CHOOSE k \in K : k < j /\ \A i \in K : i < j => i <= k
KeptAfter(K, j) == CHOOSE k \in K : k > j /\ \A i \in K : i > j => i >= k

\* out keeps the vertices K of path, among them the first and the last, and
\* every other vertex is within threshold of the segment joining the kept
\* vertices on either side of it.
SimplifiedBy(path, out, K, threshold) ==
    /\ 1 \in K /\ Len(path) \in K
    /\ out = Pick(path, K)
    /\ \A j \in (1..Len(path)) \ K :
          FLe(segment_distance_sq(path[j], path[KeptBefore(K, j)], path[KeptAfter(K, j)]),
              FInt(threshold * threshold))

\* C19: for a threshold >= 0 and a path of at least 2 vertices, simplify
\* returns a subsequence of the path that keeps its first and its last
\* vertex, and every dropped vertex is within the threshold, by
\* segment_distance, of the segment joining the two kept vertices around it.
C19_SimplifyWithin ==
    lret.call = "simplify" =>
        /\ Len(lret.paths) = Len(lines)
        /\ \A p \in 1..Len(lines) :
              Len(lines[p]) >= 2 =>
                  \E K \in SUBSET (1..Len(lines[p])) :
                      SimplifiedBy(lines[p], lret.paths[p], K, lret.threshold)

\* A polyline of four vertices simplified to three: the vertex 16 away from
\* the chord is kept, the one 9.6 away from the next chord is dropped under a
\* threshold of 10.
C19_Witness ==
    /\ lret.call = "simplify"
    /\ lret.threshold = 10
    /\ lines = <<(<<Vec(-12, 0, 0), Vec(0, 16, 0), Vec(0, 0, 0), Vec(12, 0, 0)>>)>>
    /\ lret.paths = <<(<<Vec(-12, 0, 0), Vec(0, 16, 0), Vec(12, 0, 0)>>)>>

\* The vertices inner[i..] are among outer[j..], in the same order.
RECURSIVE Embeds(_, _, _, _)
Embeds(inner, outer, i, j) ==
    IF i > Len(inner) THEN TRUE
    ELSE IF j > Len(outer) THEN FALSE
    ELSE IF inner[i] = outer[j] THEN Embeds(inner, outer, i + 1, j + 1)
    ELSE Embeds(inner, outer, i, j + 1)

\* out is path with points inserted between consecutive vertices only: it
\* begins and ends as path does and holds the vertices between in order.
Chopped(path, out) ==
    IF Len(path) < 2 THEN out = path
    ELSE /\ Len(out) >= 2
         /\ out[1] = path[1]
         /\ out[Len(out)] = path[Len(path)]
         /\ Embeds(SubSeq(path, 2, Len(path) - 1), SubSeq(out, 2, Len(out) - 1), 1, 1)

\* What the filter f makes of the vertices it accepts, in their order.
RECURSIVE Survivors(_, _)
Survivors(path, f) ==
    IF path = <<>> THEN <<>>
    ELSE IF f[Head(path)] # None THEN <<f[Head(path)][1]>> \o Survivors(Tail(path), f)
    ELSE Survivors(Tail(path), f)

ShortPolylines ==
    /\ lret.call = "chop" =>
          \A p \in 1..Len(lines) : Len(lines[p]) = 1 => lret.paths[p] = <<>>
    /\ lret.call = "chop_adaptive" =>
          (lret.panicked <=> \E p \in 1..Len(lines) : Len(lines[p]) = 0)

\* Every two consecutive points of a polyline are at most step apart.
StepsWithin(out, step) ==
    \A k \in 1..(Len(out) - 1) : distance_squared(out[k], out[k + 1]) <= step * step

\* C21: for a step > 0 and a path of at least 2 vertices, any two consecutive
\* points of the output of chop(step) are at most step apart.
C21_ChopWithinStep ==
    lret.call = "chop" =>
        \A p \in 1..Len(lines) :
            Len(lines[p]) >= 2 =>
                /\ Len(lret.paths[p]) >= 2
                /\ StepsWithin(lret.paths[p], lret.step)

\* A segment of length 12 chopped at step 5: points at 5 and 10, and a last
\* gap of 2.
C21_Witness ==
    /\ lret.call = "chop"
    /\ lret.step = 5
    /\ lines = <<(<<Vec(0, 0, 0), Vec(12, 0, 0)>>)>>
    /\ lret.paths = <<(<<Vec(0, 0, 0), Vec(5, 0, 0), Vec(10, 0, 0), Vec(12, 0, 0)>>)>>

\* C29: simplify is idempotent: for every threshold and every polyline of the
\* collection simplified, simplifying the result again with the same
\* threshold returns it unchanged.
C29_SimplifyIdempotent ==
    (lret.call = "simplify" /\ ~lret.panicked) =>
        /\ Paths_simplify(lret.paths, lret.threshold) = lret.paths
        /\ \A k \in 1..Len(lret.paths) :
               path_simplify(lret.paths[k], lret.threshold) = lret.paths[k]

\* A polyline of four vertices that lost one to a positive threshold and
\* kept one.
C29_Witness ==
    /\ lret.call = "simplify"
    /\ lret.threshold = 5
    /\ \E k \in 1..Len(lines) :
           /\ Len(lines[k]) = 4 /\ Len(lret.paths[k]) = 3

OffScreenTogether(sa, sb) ==
    \/ (sa.x < 0 /\ sb.x < 0) \/ (sa.x > LineWidth /\ sb.x > LineWidth)
    \/ (sa.y < 0 /\ sb.y < 0) \/ (sa.y > LineHeight /\ sb.y > LineHeight)

StopStated(a, b, screen_mat, step) ==
    \/ OffScreenTogether(mul_position_w(screen_mat, a), mul_position_w(screen_mat, b))
    \/ distance_squared(mul_position_w(screen_mat, a), mul_position_w(screen_mat, b))
           < step * step
    \/ distance_squared(a, b) < EPS

AllStop(path, screen_mat, step) ==
    \A k \in 1..(Len(path) - 1) : StopStated(path[k], path[k + 1], screen_mat, step)

\* C23: adaptive chopping of segments with finite ends returns, and it stops
\* bisecting exactly when a stated condition holds: every two consecutive
\* vertices of the output satisfy one of the conditions, a polyline whose
\* segments all satisfy one is returned as it is, and what is emitted for a
\* segment ends with its end point b.
C23_AdaptiveStops ==
    (lret.call = "chop_adaptive" /\ ~lret.panicked) =>
        \A p \in 1..Len(lines) :
            /\ AllStop(lret.paths[p], lret.screen_mat, lret.step)
            /\ AllStop(lines[p], lret.screen_mat, lret.step) => lret.paths[p] = lines[p]
            /\ ~AllStop(lines[p], lret.screen_mat, lret.step)
                   => Len(lret.paths[p]) > Len(lines[p])
            /\ Chopped(lines[p], lret.paths[p])

\* One segment of length 12 on the screen under a step of 1: it is bisected
\* down to pieces of length 3, whose squared length 9 is below EPS.
C23_Witness ==
    /\ lret.call = "chop_adaptive"
    /\ lret.step = 1
    /\ lret.screen_mat.t = Vec(40, 40, 0)
    /\ lines = <<(<<Vec(0, 0, 0), Vec(12, 0, 0)>>)>>
    /\ lret.paths = <<(<<Vec(0, 0, 0), Vec(3, 0, 0), Vec(6, 0, 0), Vec(9, 0, 0),
                          Vec(12, 0, 0)>>)>>

\* |v_i - v_j| >= m_i + m_j + 0.02 for the accepted circles i and j: the
\* centres are in fifths and the radii in thousandths.
Apart(i, j) ==
    distance_squared(cseen[i], cseen[j]) * 40000
        >= (cradii[i] + cradii[j] + 20) * (cradii[i] + cradii[j] + 20)

\* The candidate is nearer than that to some circle accepted before it.
Violating(candidate) ==
    \E i \in 1..Len(cseen) :
        distance_squared(cseen[i], candidate.v) * 40000
            < (candidate.m + cradii[i] + 20) * (candidate.m + cradii[i] + 20)

\* C24: at every point of a RandomCircles run any two accepted centres v_i,
\* v_j with radii m_i, m_j satisfy |v_i - v_j| >= m_i + m_j + 0.02, and a
\* candidate violating this against a circle accepted before is not added to
\* the accepted set and produces no polyline.
C24_CirclesApart ==
    [][/\ \A i \in 1..Len(cseen') : \A j \in 1..Len(cseen') : i # j => Apart(i, j)'
       /\ (cpc = "spot" /\ Violating(clast')) =>
              /\ cseen' = cseen /\ cradii' = cradii
              /\ cpaths' = cpaths /\ cpc' = "spot" /\ ~clast'.ok]_vars

\* Two circles accepted 0.283 apart, both of radius 0.05, and then a
\* candidate of radius 0.299 at the first centre rejected.
C24_Witness ==
    /\ cseen = <<Vec(3, 4, 0), Vec(4, 3, 0)>>
    /\ cradii = <<50, 50>>
    /\ clast = [v |-> Vec(3, 4, 0), m |-> 299, ok |-> FALSE]
    /\ cpc = "spot"

(***************************************************************************)
(* Claims about the striped cube                                           *)
(***************************************************************************)
StripedCube ==
    /\ ret.call = "paths" /\ shape.kind = "Cube"
    /\ shape.texture.tag = "Striped" /\ shape.texture.n >= 1

\* The i-th of the s + 1 equally spaced positions from lo to hi.
Spaced(lo, hi, i, s) == FAdd(FInt(lo), Frac((hi - lo) * i, s))
StripeXs == {Spaced(shape.min.x, shape.max.x, i, shape.texture.n) : i \in 0..shape.texture.n}
StripeYs == {Spaced(shape.min.y, shape.max.y, i, shape.texture.n) : i \in 0..shape.texture.n}

\* The polylines emitted that run from the bottom face to the top face.
Upright == {k \in 1..Len(ret.paths) : ret.paths[k][1].z # ret.paths[k][2].z}
Stroke(x, y) == <<Vec(x, y, FInt(shape.min.z)), Vec(x, y, FInt(shape.max.z))>>
StrokesExpected ==
    {Stroke(x, y) : x \in StripeXs, y \in {FInt(shape.min.y), FInt(shape.max.y)}}
        \cup {Stroke(x, y) : x \in {FInt(shape.min.x), FInt(shape.max.x)}, y \in StripeYs}

\* s + 1 equally spaced strokes on each vertical face, the corner strokes
\* shared, and none emitted twice.
VerticalStrokes ==
    /\ {ret.paths[k] : k \in Upright} = StrokesExpected
    /\ Cardinality(StripeXs) = shape.texture.n + 1
    /\ Cardinality(StripeYs) = shape.texture.n + 1
    /\ Cardinality(Upright) = Cardinality(StrokesExpected)
    /\ Cardinality(Upright) = 4 * shape.texture.n

\* The polylines emitted in the plane of the face at height z, and the pairs
\* of points they join.
Flat(z) == {k \in 1..Len(ret.paths) :
               ret.paths[k][1].z = FInt(z) /\ ret.paths[k][2].z = FInt(z)}
FlatSides(z) == {{ret.paths[k][1], ret.paths[k][2]} : k \in Flat(z)}

\* The rectangles of the face, by the positions of two opposite corners, all
\* four of whose sides are emitted.
RingAt(z, r) ==
    LET s  == shape.texture.n
        xa == Spaced(shape.min.x, shape.max.x, r[1], s)
        xb == Spaced(shape.min.x, shape.max.x, r[2], s)
        ya == Spaced(shape.min.y, shape.max.y, r[3], s)
        yb == Spaced(shape.min.y, shape.max.y, r[4], s)
    IN /\ r[1] < r[2] /\ r[3] < r[4]
       /\ {Vec(xa, ya, FInt(z)), Vec(xb, ya, FInt(z))} \in FlatSides(z)
       /\ {Vec(xa, yb, FInt(z)), Vec(xb, yb, FInt(z))} \in FlatSides(z)
       /\ {Vec(xa, ya, FInt(z)), Vec(xa, yb, FInt(z))} \in FlatSides(z)
       /\ {Vec(xb, ya, FInt(z)), Vec(xb, yb, FInt(z))} \in FlatSides(z)
Rings(z) ==
    LET I == 0..shape.texture.n
    IN {r \in I \X I \X I \X I : RingAt(z, r)}

\* C25, as stated: s + 1 strokes on each vertical face and s + 1 rings on each
\* of the top and bottom faces.
C25_AsStated ==
    StripedCube =>
        /\ ~ret.panic
        /\ VerticalStrokes
        /\ \A z \in {shape.min.z, shape.max.z} :
               Cardinality(Rings(z)) = shape.texture.n + 1

\* C25, amended: for every s >= 1 a Striped(s) cube emits s + 1 equally spaced
\* vertical strokes on each of the four vertical faces, the corner strokes
\* shared, and 2 (s + 1) segments on each of the top and bottom faces; these
\* form floor((s + 1) / 2) concentric rings, the outermost the perimeter of
\* the face, and for an even s two segments of no length at the centre.
C25_StripedCube ==
    StripedCube =>
        /\ ~ret.panic
        /\ \A k \in 1..Len(ret.paths) : Len(ret.paths[k]) = 2
        /\ VerticalStrokes
        /\ \A z \in {shape.min.z, shape.max.z} :
               LET s == shape.texture.n IN
               /\ Cardinality(Flat(z)) = 2 * (s + 1)
               /\ Cardinality(Rings(z)) = (s + 1) \div 2
               /\ Rings(z) = {<<k, s - k, k, s - k>> : k \in 0..((s - 1) \div 2)}
               /\ Cardinality({k \in Flat(z) : ret.paths[k][1] = ret.paths[k][2]})
                      = IF s % 2 = 0 THEN 2 ELSE 0
               /\ \A k \in Flat(z) :
                      \/ ret.paths[k][1] = ret.paths[k][2]
                            /\ ret.paths[k][1].x = Spaced(shape.min.x, shape.max.x, 1, 2)
                            /\ ret.paths[k][1].y = Spaced(shape.min.y, shape.max.y, 1, 2)
                      \/ ret.paths[k][1] # ret.paths[k][2]
                            /\ Cardinality({j \in Flat(z) : {ret.paths[j][1], ret.paths[j][2]}
                                               = {ret.paths[k][1], ret.paths[k][2]}}) = 1
        /\ Len(ret.paths) = 4 * shape.texture.n + 4 * (shape.texture.n + 1)

\* Four stripes on the larger cube: sixteen strokes and two rings and a centre
\* on each of the two faces.
C25_Witness ==
    /\ StripedCube /\ shape.texture.n = 4
    /\ shape.min = Vec(-1, -2, -3) /\ shape.max = Vec(2, 3, 4)
    /\ Len(ret.paths) = 36
    /\ Cardinality(Rings(4)) = 2

(***************************************************************************)
(* Claims about a mesh moved, fitted, compiled and asked                   *)
(***************************************************************************)
Moves == {"transform", "move_to", "fit_inside"}

\* The tree slot is empty or holds the BVH of the triangles as they are now.
Fresh(m) == m.tree = None \/ m.tree = Some(Tree_new(Mesh_triangles(m)))

\* C26: the BVH is never stale: before and after each of Mesh::new, transform,
\* move_to, fit_inside and compile the tree slot is empty or holds the BVH of
\* the current vertex positions; each transform leaves the slot empty, and
\* each compile leaves the BVH of the current positions in it.
C26_NeverStale ==
    [][/\ Fresh(mesh) /\ Fresh(mesh')
       /\ mret'.call \in Moves => mesh'.tree = None
       /\ mret'.call = "compile" =>
              mesh'.tree = Some(Tree_new(Mesh_triangles(mesh')))]_vars

\* A compile that built the BVH of a mesh moved since its construction: the
\* box mesh fitted into a box twice its size, its tree split in two.
C26_Witness ==
    /\ mret.call = "compile" /\ mret.built
    /\ mesh.bx = Box(Vec(-1, -1, -1), Vec(3, 3, 3))
    /\ Len(mesh.index_triangles) = 12
    /\ ~mesh.tree[1].leaf

\* C27: the tree slot is filled by compile only and emptied by every
\* transform, so a mesh is without its BVH exactly while it has not been
\* compiled since its construction or its last transform; an intersect on
\* such a mesh returns no hit and leaves the mesh as it was, without the BVH,
\* and an intersect that returns a finite hit found the BVH in place.
C27_UncompiledNoHit ==
    [][/\ (mesh.tree = None /\ mesh'.tree # None) => mret'.call = "compile"
       /\ mret'.call \in Moves => mesh'.tree = None
       /\ (mret'.call = "intersect" /\ mesh.tree = None) =>
              (mret'.hit = NoHit /\ mesh' = mesh)
       /\ (mret'.call = "intersect" /\ Hit_ok(mret'.hit)) => mesh.tree # None]_vars

\* A ray that would hit a triangle of the mesh has been answered with no hit,
\* the mesh being without its BVH.
C27_Witness ==
    /\ mret.call = "intersect"
    /\ mesh.tree = None
    /\ mret.hit = NoHit
    /\ \E h \in TriangleHits(mret.ray) : Hit_ok(h)

\* A finite hit returned by a compiled mesh.
C27_WitnessHit ==
    /\ mret.call = "intersect"
    /\ mesh.tree # None
    /\ Hit_ok(mret.hit)

\* C30: the cached bounding box holds every vertex of the vertex list, after
\* Mesh::new and after every transform, move_to, fit_inside and compile.
C30_BoxHoldsVertices ==
    \A k \in 1..Len(mesh.vertices) :
        /\ mesh.bx.min.x <= mesh.vertices[k].x /\ mesh.vertices[k].x <= mesh.bx.max.x
        /\ mesh.bx.min.y <= mesh.vertices[k].y /\ mesh.vertices[k].y <= mesh.bx.max.y
        /\ mesh.bx.min.z <= mesh.vertices[k].z /\ mesh.vertices[k].z <= mesh.bx.max.z

\* A mesh fitted into a box away from where it was built, and compiled.
C30_Witness ==
    /\ mret.call = "compile"
    /\ mesh.bx = Box(Vec(-1, -1, -1), Vec(3, 3, 3))
    /\ Len(mesh.vertices) = 4
    /\ \E k \in 1..Len(mesh.vertices) : mesh.vertices[k] = Vec(3, -1, -1)

=============================================================================
